---- MODULE Spec2Model ----
(***************************************************************************)
(* The sui_drop::market listing / purchase protocol.                       *)
(*                                                                         *)
(* Every entry function of the Move module is one action.  A Move abort    *)
(* reverts the whole transaction, so an aborted call leaves the ledger     *)
(* (listings, coin balances, event log) as it was; the variable `last`     *)
(* records the call and its outcome so that failures are observable.       *)
(***************************************************************************)
EXTENDS Integers, Sequences, FiniteSets, TLC

(* ---------------------------- bounds ----------------------------------- *)

\* Number of purchase events the event log may hold.
MaxEvents == 1

\* MIST every address owns in the initial state.
InitialFunds == 1000

\* Transaction senders / referrer addresses.
Addresses == {"alice", "bob", "carol"}

\* Senders of the listing-creation calls.  The module only ever compares
\* addresses for equality, so which of them sells is immaterial.
Sellers == {"alice"}

\* price arguments of listing creation (u64; 0 is accepted by the code).
Prices == {0, 10, 999}

\* affiliate_percentage arguments (basis points), in and out of range.
Percentages == {0, 333, 1000, 1001}

\* blob_id arguments (vector<u8>), the empty vector included.
BlobIds == {<<>>, <<7>>}

\* name and description arguments (vector<u8>).
Names == {<<110>>}
Descriptions == {<<100>>}

\* Values of the payment coin tried against a listing of price p:
\* one below, exact, one above.
PaymentValues(p) == {v \in {p - 1, p, p + 1} : v >= 0}

(* ------------------------- program constants --------------------------- *)

E_INSUFFICIENT_PAYMENT == 0
E_LISTING_NOT_ACTIVE == 1
E_INVALID_AFFILIATE_PERCENTAGE == 2
E_CANNOT_SELF_REFER == 3

MAX_AFFILIATE_PERCENTAGE == 1000
BASIS_POINTS == 10000

\* The literal abort code of the sender check in deactivate_listing,
\* reactivate_listing and update_affiliate_percentage.
E_NOT_SELLER == 1

(* ------------------------------ state ---------------------------------- *)

\* The model follows one shared Listing object.  Every entry function takes
\* exactly one Listing by reference and the module keeps no global state, so
\* a call on another listing neither reads nor writes this one.
VARIABLES
    listings,   \* the shared Listing objects (<<>> before creation); index = object id
    balance,    \* address -> MIST held in coins
    events,     \* the event log: sequence of emitted purchase events
    last,       \* the last transaction: entry function, arguments and outcome
    buyPage,    \* React state of one open redeem page (BuyPageContent)
    sellPage,   \* React state and position of one publish page (SellPage)
    walrus,     \* the blob store: the set of stored blobs [blobId, payload]
    lib         \* the last call of a library function: name, arguments, result

vars == <<listings, balance, events, last, buyPage, sellPage, walrus, lib>>

NoAddress == "none"

\* struct Listing
Listing(id, seller, price, blob_id, name, description, is_active, affiliate_percentage) ==
    [id |-> id, seller |-> seller, price |-> price, blob_id |-> blob_id,
     name |-> name, description |-> description, is_active |-> is_active,
     affiliate_percentage |-> affiliate_percentage]

\* struct PurchaseEvent (it has no referrer and no fee fields)
PurchaseEvent(listing_id, buyer, seller, price) ==
    [type |-> "PurchaseEvent", listing_id |-> listing_id, buyer |-> buyer,
     seller |-> seller, price |-> price]

\* struct AffiliatePurchaseEvent
AffiliatePurchaseEvent(listing_id, buyer, seller, referrer, price, affiliate_fee, seller_amount) ==
    [type |-> "AffiliatePurchaseEvent", listing_id |-> listing_id, buyer |-> buyer,
     seller |-> seller, referrer |-> referrer, price |-> price,
     affiliate_fee |-> affiliate_fee, seller_amount |-> seller_amount]

(* -------------------- outcome of one entry call ------------------------ *)

\* assert!(cond, code) that failed: the transaction aborts, nothing it did stays.
Abort(code) ==
    [status |-> "abort", code |-> code, transfers |-> <<>>, emitted |-> <<>>]

\* The call ran to its end: the coins it transferred and the events it emitted.
Ok(transfers, emitted) ==
    [status |-> "ok", code |-> 0, transfers |-> transfers, emitted |-> emitted]

\* A u64 operation left the range (price - affiliate_fee below 0): the Move VM
\* aborts the transaction with an arithmetic error, which carries no module code.
ArithmeticError ==
    [status |-> "arithmetic_error", code |-> 0, transfers |-> <<>>, emitted |-> <<>>]

\* transfer::public_transfer(coin, recipient)
Transfer(recipient, amount) == [to |-> recipient, amount |-> amount]

\* View function calculate_affiliate_fee: (price * affiliate_percentage) / BASIS_POINTS
calculate_affiliate_fee(listing) ==
    (listing.price * listing.affiliate_percentage) \div BASIS_POINTS

\* purchase whose payment assertion lets a coin one MIST short through.
purchase_exec_accepting_one_less(listing, payment_value, buyer) ==
    IF ~listing.is_active THEN Abort(E_LISTING_NOT_ACTIVE)
    ELSE IF ~(payment_value + 1 >= listing.price) THEN Abort(E_INSUFFICIENT_PAYMENT)
    ELSE Ok(<<Transfer(listing.seller, payment_value)>>,
            <<PurchaseEvent(listing.id, buyer, listing.seller, listing.price)>>)

\* purchase without its is_active assertion.
purchase_exec_ignoring_is_active(listing, payment_value, buyer) ==
    IF ~(payment_value >= listing.price) THEN Abort(E_INSUFFICIENT_PAYMENT)
    ELSE Ok(<<Transfer(listing.seller, payment_value)>>,
            <<PurchaseEvent(listing.id, buyer, listing.seller, listing.price)>>)

\* purchase whose event reports the amount paid as the price.
purchase_exec_event_reporting_payment(listing, payment_value, buyer) ==
    IF ~listing.is_active THEN Abort(E_LISTING_NOT_ACTIVE)
    ELSE IF ~(payment_value >= listing.price) THEN Abort(E_INSUFFICIENT_PAYMENT)
    ELSE Ok(<<Transfer(listing.seller, payment_value)>>,
            <<PurchaseEvent(listing.id, buyer, listing.seller, payment_value)>>)

\* Body of purchase.
purchase_exec(listing, payment_value, buyer) ==
    IF ~listing.is_active THEN Abort(E_LISTING_NOT_ACTIVE)
    ELSE IF ~(payment_value >= listing.price) THEN Abort(E_INSUFFICIENT_PAYMENT)
    ELSE Ok(<<Transfer(listing.seller, payment_value)>>,
            <<PurchaseEvent(listing.id, buyer, listing.seller, listing.price)>>)

\* The fee rounded up instead of down.
affiliate_fee_of_rounded_up(listing) ==
    IF listing.affiliate_percentage > 0
    THEN (listing.price * listing.affiliate_percentage + BASIS_POINTS - 1) \div BASIS_POINTS
    ELSE 0

\* The fee taken per mille instead of per ten thousand.
affiliate_fee_of_per_mille(listing) ==
    IF listing.affiliate_percentage > 0
    THEN (listing.price * listing.affiliate_percentage) \div 1000
    ELSE 0

\* let affiliate_fee = if (affiliate_percentage > 0) { price * pct / BASIS_POINTS } else { 0 }
\* (the prices and percentages drawn here keep the u64 product far below 2^64)
affiliate_fee_of(listing) ==
    IF listing.affiliate_percentage > 0
    THEN (listing.price * listing.affiliate_percentage) \div BASIS_POINTS
    ELSE 0

\* A split that pays the seller seller_amount and hands the excess back to the buyer.
split_payment_refunding_excess(listing, payment_value, referrer, buyer) ==
    LET affiliate_fee == affiliate_fee_of(listing)
        seller_amount == listing.price - affiliate_fee
        to_referrer   == IF affiliate_fee > 0
                         THEN <<Transfer(referrer, affiliate_fee)>>
                         ELSE <<>>
    IN  IF affiliate_fee > listing.price THEN ArithmeticError
        ELSE Ok(to_referrer \o <<Transfer(listing.seller, seller_amount),
                                  Transfer(buyer, payment_value - listing.price)>>,
                <<AffiliatePurchaseEvent(listing.id, buyer, listing.seller, referrer,
                                         listing.price, affiliate_fee, seller_amount)>>)

\* Split and transfers of purchase_with_referral once every assert passed.
split_payment(listing, payment_value, referrer, buyer) ==
    LET affiliate_fee == affiliate_fee_of(listing)
        seller_amount == listing.price - affiliate_fee
        to_referrer   == IF affiliate_fee > 0
                         THEN <<Transfer(referrer, affiliate_fee)>>
                         ELSE <<>>
        remaining     == IF affiliate_fee > 0
                         THEN payment_value - affiliate_fee
                         ELSE payment_value
    IN  IF affiliate_fee > listing.price THEN ArithmeticError
        ELSE Ok(to_referrer \o <<Transfer(listing.seller, remaining)>>,
                <<AffiliatePurchaseEvent(listing.id, buyer, listing.seller, referrer,
                                         listing.price, affiliate_fee, seller_amount)>>)

\* purchase_with_referral that tests referrer != listing.seller only after the
\* affiliate coin went out, and then returns instead of aborting.
purchase_with_referral_exec_late_seller_check(listing, payment_value, referrer, buyer) ==
    IF ~listing.is_active THEN Abort(E_LISTING_NOT_ACTIVE)
    ELSE IF ~(payment_value >= listing.price) THEN Abort(E_INSUFFICIENT_PAYMENT)
    ELSE IF ~(referrer # buyer) THEN Abort(E_CANNOT_SELF_REFER)
    ELSE IF ~(referrer # listing.seller)
    THEN Ok(IF affiliate_fee_of(listing) > 0
            THEN <<Transfer(referrer, affiliate_fee_of(listing))>>
            ELSE <<>>, <<>>)
    ELSE split_payment(listing, payment_value, referrer, buyer)

\* purchase_with_referral without the referrer != listing.seller assertion.
purchase_with_referral_exec_seller_may_refer(listing, payment_value, referrer, buyer) ==
    IF ~listing.is_active THEN Abort(E_LISTING_NOT_ACTIVE)
    ELSE IF ~(payment_value >= listing.price) THEN Abort(E_INSUFFICIENT_PAYMENT)
    ELSE IF ~(referrer # buyer) THEN Abort(E_CANNOT_SELF_REFER)
    ELSE split_payment(listing, payment_value, referrer, buyer)

\* Body of purchase_with_referral.
purchase_with_referral_exec(listing, payment_value, referrer, buyer) ==
    IF ~listing.is_active THEN Abort(E_LISTING_NOT_ACTIVE)
    ELSE IF ~(payment_value >= listing.price) THEN Abort(E_INSUFFICIENT_PAYMENT)
    ELSE IF ~(referrer # buyer) THEN Abort(E_CANNOT_SELF_REFER)
    ELSE IF ~(referrer # listing.seller) THEN Abort(E_CANNOT_SELF_REFER)
    ELSE split_payment(listing, payment_value, referrer, buyer)

(* -------------------- committing a transaction ------------------------- *)

RECURSIVE Credit(_, _)
\* The balances after the coins of `transfers` reached their recipients.
Credit(bal, transfers) ==
    IF transfers = <<>> THEN bal
    ELSE LET t == Head(transfers)
         IN  Credit([bal EXCEPT ![t.to] = @ + t.amount], Tail(transfers))

\* The balances after a purchase call by `buyer` with a coin of `payment_value`:
\* a successful call consumes the coin, an aborted one leaves it with the buyer.
Settle(bal, buyer, payment_value, out) ==
    IF out.status = "ok"
    THEN Credit([bal EXCEPT ![buyer] = @ - payment_value], out.transfers)
    ELSE bal

\* What `last` records of a call: the entry function, its sender and arguments,
\* and the effects of the transaction (status, coins transferred, events emitted,
\* and by how much each address's balance changed from `before` to `after`).
Call(op, sender, id, payment_value, referrer, percentage, out, before, after) ==
    [op |-> op, sender |-> sender, id |-> id, payment |-> payment_value,
     referrer |-> referrer, percentage |-> percentage,
     status |-> out.status, code |-> out.code,
     transfers |-> out.transfers, emitted |-> out.emitted,
     balance_changes |-> [a \in Addresses |-> after[a] - before[a]]]

(* --------------------------- text and bytes ---------------------------- *)

\* Strings are sequences of UTF-16 code units, byte strings sequences of 0..255.

\* Outcome of a call: a returned value or a thrown error.
Return(value) == [status |-> "return", value |-> value, error |-> "none"]
Throw(error) == [status |-> "throw", value |-> <<>>, error |-> error]
Returned(r) == r.status = "return"
Threw(r) == r.status = "throw"

\* Hexadecimal digit as a character code ('0'..'9', 'a'..'f').
HexDigit(n) == IF n < 10 THEN 48 + n ELSE 87 + n

\* Code points String.prototype.trim removes (WhiteSpace and LineTerminator).
WhiteSpace ==
    {9, 10, 11, 12, 13, 32, 160, 5760, 8232, 8233, 8239, 8287, 12288, 65279}
        \cup (8192..8202)

RECURSIVE TrimStart(_)
TrimStart(str) ==
    IF str # <<>> /\ Head(str) \in WhiteSpace THEN TrimStart(Tail(str)) ELSE str

RECURSIVE TrimEnd(_)
TrimEnd(str) ==
    IF str # <<>> /\ str[Len(str)] \in WhiteSpace
    THEN TrimEnd(SubSeq(str, 1, Len(str) - 1))
    ELSE str

\* str.trim()
Trim(str) == TrimEnd(TrimStart(str))

\* TextEncoder.encode of one code unit (code units below U+D800 only).
Utf8Of(c) ==
    IF c < 128 THEN <<c>>
    ELSE IF c < 2048 THEN <<192 + (c \div 64), 128 + (c % 64)>>
    ELSE <<224 + (c \div 4096), 128 + ((c \div 64) % 64), 128 + (c % 64)>>

RECURSIVE Utf8Encode(_)
\* new TextEncoder().encode(str)
Utf8Encode(str) ==
    IF str = <<>> THEN <<>> ELSE Utf8Of(Head(str)) \o Utf8Encode(Tail(str))

IsContinuation(bytes, i) == i <= Len(bytes) /\ bytes[i] \in 128..191

RECURSIVE Utf8DecodeFrom(_, _)
\* The text of bytes[i..]: one-, two- and three-byte sequences; every byte
\* that starts no well-formed sequence becomes U+FFFD.
Utf8DecodeFrom(bytes, i) ==
    IF i > Len(bytes) THEN <<>>
    ELSE LET b == bytes[i]
         IN  IF b < 128 THEN <<b>> \o Utf8DecodeFrom(bytes, i + 1)
             ELSE IF b \in 194..223 /\ IsContinuation(bytes, i + 1)
             THEN <<(b - 192) * 64 + (bytes[i + 1] - 128)>> \o Utf8DecodeFrom(bytes, i + 2)
             ELSE IF b \in 224..239 /\ IsContinuation(bytes, i + 1)
                     /\ IsContinuation(bytes, i + 2)
                     /\ (b - 224) * 4096 + (bytes[i + 1] - 128) * 64 >= 2048
             THEN <<(b - 224) * 4096 + (bytes[i + 1] - 128) * 64 + (bytes[i + 2] - 128)>>
                      \o Utf8DecodeFrom(bytes, i + 3)
             ELSE <<65533>> \o Utf8DecodeFrom(bytes, i + 1)

\* new TextDecoder().decode(bytes): UTF-8, a leading byte order mark dropped.
Utf8Decode(bytes) ==
    IF Len(bytes) >= 3 /\ SubSeq(bytes, 1, 3) = <<239, 187, 191>>
    THEN Utf8DecodeFrom(bytes, 4)
    ELSE Utf8DecodeFrom(bytes, 1)

\* The base64 alphabet: A-Z, a-z, 0-9, '+', '/'.
Base64Char(n) ==
    IF n < 26 THEN 65 + n
    ELSE IF n < 52 THEN 97 + (n - 26)
    ELSE IF n < 62 THEN 48 + (n - 52)
    ELSE IF n = 62 THEN 43 ELSE 47

\* The 6-bit value of a base64 character, -1 for any other character.
Base64Value(c) ==
    IF c \in 65..90 THEN c - 65
    ELSE IF c \in 97..122 THEN c - 97 + 26
    ELSE IF c \in 48..57 THEN c - 48 + 52
    ELSE IF c = 43 THEN 62
    ELSE IF c = 47 THEN 63 ELSE -1

RECURSIVE Base64Encode(_)
Base64Encode(bytes) ==
    IF bytes = <<>> THEN <<>>
    ELSE IF Len(bytes) = 1
    THEN <<Base64Char(bytes[1] \div 4), Base64Char((bytes[1] % 4) * 16), 61, 61>>
    ELSE IF Len(bytes) = 2
    THEN <<Base64Char(bytes[1] \div 4),
           Base64Char((bytes[1] % 4) * 16 + (bytes[2] \div 16)),
           Base64Char((bytes[2] % 16) * 4), 61>>
    ELSE <<Base64Char(bytes[1] \div 4),
           Base64Char((bytes[1] % 4) * 16 + (bytes[2] \div 16)),
           Base64Char((bytes[2] % 16) * 4 + (bytes[3] \div 64)),
           Base64Char(bytes[3] % 64)>> \o Base64Encode(SubSeq(bytes, 4, Len(bytes)))

RECURSIVE Base64Decode(_)
\* The bytes of base64 characters without padding (length % 4 is not 1).
Base64Decode(chars) ==
    IF Len(chars) < 2 THEN <<>>
    ELSE LET v1 == Base64Value(chars[1])
             v2 == Base64Value(chars[2])
         IN  IF Len(chars) = 2 THEN <<v1 * 4 + (v2 \div 16)>>
             ELSE LET v3 == Base64Value(chars[3])
                  IN  IF Len(chars) = 3
                      THEN <<v1 * 4 + (v2 \div 16), (v2 % 16) * 16 + (v3 \div 4)>>
                      ELSE <<v1 * 4 + (v2 \div 16), (v2 % 16) * 16 + (v3 \div 4),
                             (v3 % 4) * 64 + Base64Value(chars[4])>>
                               \o Base64Decode(SubSeq(chars, 5, Len(chars)))

\* btoa(str): throws on a code unit above 0xFF, else the base64 of the bytes.
btoa(str) ==
    IF \E i \in 1..Len(str) : str[i] > 255
    THEN Throw("InvalidCharacterError")
    ELSE Return(Base64Encode(str))

\* atob(str): ASCII whitespace is removed, then up to two '=' at the end of a
\* text whose length is a multiple of 4; a length % 4 of 1 or a character
\* outside the alphabet throws; else the decoded bytes as a binary string.
atob(str) ==
    LET data == SelectSeq(str, LAMBDA c : c \notin {9, 10, 12, 13, 32})
        n == Len(data)
        unpadded == IF n % 4 = 0 /\ n >= 2 /\ data[n] = 61 /\ data[n - 1] = 61
                    THEN SubSeq(data, 1, n - 2)
                    ELSE IF n % 4 = 0 /\ n >= 1 /\ data[n] = 61
                    THEN SubSeq(data, 1, n - 1)
                    ELSE data
    IN  IF Len(unpadded) % 4 = 1
           \/ \E i \in 1..Len(unpadded) : Base64Value(unpadded[i]) = -1
        THEN Throw("InvalidCharacterError")
        ELSE Return(Base64Decode(unpadded))

\* The value of a hexadecimal digit character, -1 for any other character.
HexValue(c) ==
    IF c \in 48..57 THEN c - 48
    ELSE IF c \in 97..102 THEN c - 87
    ELSE IF c \in 65..70 THEN c - 55 ELSE -1

\* JSON.stringify of one code unit inside a string literal.
JsonQuoteChar(c) ==
    IF c = 34 THEN <<92, 34>>
    ELSE IF c = 92 THEN <<92, 92>>
    ELSE IF c = 8 THEN <<92, 98>>
    ELSE IF c = 9 THEN <<92, 116>>
    ELSE IF c = 10 THEN <<92, 110>>
    ELSE IF c = 12 THEN <<92, 102>>
    ELSE IF c = 13 THEN <<92, 114>>
    ELSE IF c < 32 THEN <<92, 117, 48, 48, HexDigit(c \div 16), HexDigit(c % 16)>>
    ELSE <<c>>

RECURSIVE JsonQuoteChars(_)
JsonQuoteChars(str) ==
    IF str = <<>> THEN <<>> ELSE JsonQuoteChar(Head(str)) \o JsonQuoteChars(Tail(str))

\* JSON.stringify(str)
JsonQuote(str) == <<34>> \o JsonQuoteChars(str) \o <<34>>

\* JSON.stringify({ k: k, n: n, t: t })
JsonStringify(k, n, t) ==
    <<123, 34, 107, 34, 58>> \o JsonQuote(k)
        \o <<44, 34, 110, 34, 58>> \o JsonQuote(n)
        \o <<44, 34, 116, 34, 58>> \o JsonQuote(t) \o <<125>>

\* The code unit at position i, -1 past the end.
CharAt(str, i) == IF i \in 1..Len(str) THEN str[i] ELSE -1

RECURSIVE JsonSkip(_, _)
\* The first position at or after i that holds no JSON whitespace.
JsonSkip(str, i) ==
    IF CharAt(str, i) \in {9, 10, 13, 32} THEN JsonSkip(str, i + 1) ELSE i

RECURSIVE JsonScanString(_, _, _)
\* Reads a string literal whose opening quote precedes position i.
JsonScanString(str, i, acc) ==
    LET c == CharAt(str, i)
        e == CharAt(str, i + 1)
        h == [j \in 1..4 |-> HexValue(CharAt(str, i + 1 + j))]
    IN  IF c = -1 \/ c < 32 THEN [ok |-> FALSE, value |-> <<>>, next |-> i]
        ELSE IF c = 34 THEN [ok |-> TRUE, value |-> acc, next |-> i + 1]
        ELSE IF c # 92 THEN JsonScanString(str, i + 1, acc \o <<c>>)
        ELSE IF e \in {34, 92, 47} THEN JsonScanString(str, i + 2, acc \o <<e>>)
        ELSE IF e = 98 THEN JsonScanString(str, i + 2, acc \o <<8>>)
        ELSE IF e = 102 THEN JsonScanString(str, i + 2, acc \o <<12>>)
        ELSE IF e = 110 THEN JsonScanString(str, i + 2, acc \o <<10>>)
        ELSE IF e = 114 THEN JsonScanString(str, i + 2, acc \o <<13>>)
        ELSE IF e = 116 THEN JsonScanString(str, i + 2, acc \o <<9>>)
        ELSE IF e = 117 /\ \A j \in 1..4 : h[j] >= 0
        THEN JsonScanString(str, i + 6,
                            acc \o <<h[1] * 4096 + h[2] * 256 + h[3] * 16 + h[4]>>)
        ELSE [ok |-> FALSE, value |-> <<>>, next |-> i]

RECURSIVE JsonMembers(_, _, _)
\* Reads "key":"value" members from position i up to the closing brace, which
\* must end the text; gives the members read as <<key, value>> pairs.
JsonMembers(str, i, acc) ==
    LET key == JsonScanString(str, i + 1, <<>>)
        colon == JsonSkip(str, key.next)
        open == JsonSkip(str, colon + 1)
        val == JsonScanString(str, open + 1, <<>>)
        after == JsonSkip(str, val.next)
        members == acc \o <<<<key.value, val.value>>>>
    IN  IF CharAt(str, i) # 34 \/ ~key.ok \/ CharAt(str, colon) # 58
           \/ CharAt(str, open) # 34 \/ ~val.ok
        THEN Throw("SyntaxError")
        ELSE IF CharAt(str, after) = 44
        THEN JsonMembers(str, JsonSkip(str, after + 1), members)
        ELSE IF CharAt(str, after) = 125 /\ JsonSkip(str, after + 1) > Len(str)
        THEN Return(members)
        ELSE Throw("SyntaxError")

\* JSON.parse(text) for a text that is an object with string members; any
\* other text throws SyntaxError.
JsonParse(str) ==
    LET brace == JsonSkip(str, 1)
        first == JsonSkip(str, brace + 1)
    IN  IF CharAt(str, brace) # 123 THEN Throw("SyntaxError")
        ELSE IF CharAt(str, first) = 125
        THEN IF JsonSkip(str, first + 1) > Len(str) THEN Return(<<>>)
             ELSE Throw("SyntaxError")
        ELSE JsonMembers(str, first, <<>>)

\* The value undefined, and its conversion to a string.
Undefined == <<-1>>
StringOf(value) ==
    IF value = Undefined THEN <<117, 110, 100, 101, 102, 105, 110, 101, 100>> ELSE value

RECURSIVE Member(_, _)
\* data[key]: the value of the last member named key, undefined without one.
Member(data, key) ==
    IF data = <<>> THEN Undefined
    ELSE IF data[Len(data)][1] = key THEN data[Len(data)][2]
    ELSE Member(SubSeq(data, 1, Len(data) - 1), key)

(* ------------------------------ crypto --------------------------------- *)

\* Bits of the AES-GCM key.
AES_KEY_LENGTH == 256

\* Keys generateEncryptionKey can return, as their raw bytes.
Keys == { [i \in 1..(AES_KEY_LENGTH \div 8) |-> b] : b \in {0, 255} }

\* A File: name, MIME type and content.
File(name, type, bytes) == [name |-> name, type |-> type, bytes |-> bytes]

\* The type a Blob or File constructor keeps of options.type: "" when a
\* character is outside U+0020..U+007E, else the ASCII-lowercased text.
BlobType(type) ==
    IF \E i \in 1..Len(type) : type[i] \notin 32..126 THEN <<>>
    ELSE [i \in 1..Len(type) |-> IF type[i] \in 65..90 THEN type[i] + 32 ELSE type[i]]

\* A stand-in for AES-GCM with the properties the program relies on: the
\* ciphertext is as long as the plaintext plus a 16-byte tag, it depends on
\* key, iv and plaintext, and decryption checks the tag.
KeyStream(key, iv, i) ==
    (key[((i - 1) % Len(key)) + 1] + iv[((i - 1) % Len(iv)) + 1] + i) % 256

RECURSIVE SumOf(_)
SumOf(bytes) == IF bytes = <<>> THEN 0 ELSE (Head(bytes) + SumOf(Tail(bytes))) % 256

AuthTag(key, iv, ciphertext) ==
    [j \in 1..16 |-> (SumOf(key) + SumOf(iv) + SumOf(ciphertext) + 7 * j) % 256]

\* crypto.subtle.encrypt({ name: "AES-GCM", iv }, key, data)
SubtleEncrypt(key, iv, data) ==
    LET ciphertext == [i \in 1..Len(data) |-> (data[i] + KeyStream(key, iv, i)) % 256]
    IN  ciphertext \o AuthTag(key, iv, ciphertext)

\* crypto.subtle.decrypt({ name: "AES-GCM", iv }, key, data)
SubtleDecrypt(key, iv, data) ==
    LET n == Len(data) - 16
        ciphertext == SubSeq(data, 1, n)
    IN  IF n < 0 \/ iv = <<>> \/ SubSeq(data, n + 1, Len(data)) # AuthTag(key, iv, ciphertext)
        THEN Throw("OperationError")
        ELSE Return([i \in 1..n |-> (ciphertext[i] + 256 - KeyStream(key, iv, i)) % 256])

\* exportKeyToBase64: btoa of the raw key bytes.
exportKeyToBase64(key) == btoa(key).value

\* importKeyFromBase64: atob, then importKey("raw", ...), which rejects a key
\* that is not 128, 192 or 256 bits long.
importKeyFromBase64(base64Key) ==
    LET keyBytes == atob(StringOf(base64Key))
    IN  IF Threw(keyBytes) THEN keyBytes
        ELSE IF Len(keyBytes.value) * 8 \notin {128, 192, 256} THEN Throw("DataError")
        ELSE Return(keyBytes.value)

\* encryptFile, with the random iv as an argument.
encryptFile(file, key, iv) ==
    [encryptedBlob |-> SubtleEncrypt(key, iv, file.bytes), iv |-> iv,
     originalName |-> file.name, originalType |-> file.type]

\* decryptFile that drops the MIME type.
decryptFile_untyped(encryptedData, key, iv, originalName, originalType) ==
    LET decrypted == SubtleDecrypt(key, iv, encryptedData)
    IN  IF Threw(decrypted) THEN decrypted
        ELSE Return(File(StringOf(originalName), <<>>, decrypted.value))

\* decryptFile
decryptFile(encryptedData, key, iv, originalName, originalType) ==
    LET decrypted == SubtleDecrypt(key, iv, encryptedData)
    IN  IF Threw(decrypted) THEN decrypted
        ELSE Return(File(StringOf(originalName), BlobType(StringOf(originalType)),
                         decrypted.value))

\* encodeUnlockData: btoa(JSON.stringify({ k, n, t }))
encodeUnlockData(key, fileName, fileType) ==
    btoa(JsonStringify(exportKeyToBase64(key), fileName, fileType))

\* The try block of decodeUnlockData.
decodeUnlockDataBody(encoded) ==
    LET text == atob(encoded)
        data == JsonParse(text.value)
        key == importKeyFromBase64(Member(data.value, <<107>>))
    IN  IF Threw(text) THEN text
        ELSE IF Threw(data) THEN data
        ELSE IF Threw(key) THEN key
        ELSE Return([key |-> key.value,
                     fileName |-> Member(data.value, <<110>>),
                     fileType |-> Member(data.value, <<116>>)])

\* decodeUnlockData: whatever the try block throws is replaced by one Error.
decodeUnlockData(encoded) ==
    IF Threw(decodeUnlockDataBody(encoded))
    THEN Throw("Invalid unlock key - the link may be corrupted")
    ELSE decodeUnlockDataBody(encoded)

(* ------------------------ the redeem page ------------------------------ *)

\* A link without ?id= / without #fragment.
NoListingId == 0
NoUnlockData == ""

\* affiliatePercentage of ListingInfo: parseInt(field) / 100, a fraction kept as
\* numerator and denominator; a missing field gives 0.
Percent(basis_points) == [num |-> basis_points, den |-> 100]
IsPositive(q) == q.num > 0

\* decodeFieldValue on a vector<u8> field (an array of numbers): "" for an empty
\* array, the UTF-8 decoding when that is not empty, else the bytes as char codes.
decodeFieldValue(value) ==
    IF value = <<>> THEN <<>>
    ELSE IF Utf8Decode(value) # <<>> THEN Utf8Decode(value)
    ELSE value

\* isContentIdCandidate on a vector<u8> field: a non-empty array of numbers.
isContentIdCandidate(value) == value # <<>>

RECURSIVE FirstCandidate(_)
\* Step 2 of extractBlobId over the remaining field values, in key order.
FirstCandidate(values) ==
    IF values = <<>> THEN <<>>
    ELSE IF isContentIdCandidate(Head(values)) /\ decodeFieldValue(Head(values)) # <<>>
    THEN decodeFieldValue(Head(values))
    ELSE FirstCandidate(Tail(values))

\* extractBlobId that reads the blob_id field only.
extractBlobId_known_field_only(fields) == decodeFieldValue(fields.blob_id)

\* extractBlobId(fields) on the fields of a Listing object: blob_id is the one
\* known field name a Listing has; the fallback walks the fields that are not
\* id, seller, price, is_active or affiliate_percentage.
extractBlobId(fields) ==
    IF decodeFieldValue(fields.blob_id) # <<>> THEN decodeFieldValue(fields.blob_id)
    ELSE FirstCandidate(<<fields.blob_id, fields.name, fields.description>>)

\* What SUI_CLIENT.getObject can answer: a throw, no data, an object that is
\* not a Move object, or the Move object with its fields.
RpcThrew == [kind |-> "threw", error |-> "fetch failed", fields |-> <<>>]
RpcNoData == [kind |-> "nodata", error |-> "none", fields |-> <<>>]
RpcPackage == [kind |-> "package", error |-> "none", fields |-> <<>>]
RpcObject(fields) == [kind |-> "moveObject", error |-> "none", fields |-> <<fields>>]

\* The value null.
Null == <<>>

\* getListingDetails(objectId) given the answer of getObject. A Listing has no
\* ipfs_cid field, so ipfsCid is the decoding of the empty array.
getListingDetails(objectId, object) ==
    IF object.kind = "threw" THEN Return(Null)
    ELSE IF object.kind # "moveObject" THEN Return(Null)
    ELSE LET fields == object.fields[1]
         IN  Return(<<[id |-> objectId, seller |-> fields.seller, price |-> fields.price,
                       ipfsCid |-> Utf8Decode(<<>>),
                       name |-> Utf8Decode(fields.name),
                       description |-> Utf8Decode(fields.description),
                       isActive |-> fields.is_active]>>)

\* setListing({...}) in fetchListing: the ListingInfo built from the object read.
\* blobId is what extractBlobId finds in the object's fields ("" for none).
ListingInfo(listing) ==
    [id |-> listing.id, seller |-> listing.seller, price |-> listing.price,
     blobId |-> extractBlobId(listing), isActive |-> listing.is_active,
     affiliatePercentage |-> Percent(listing.affiliate_percentage)]

\* useState initial values of BuyPageContent once the URL-parsing effect has run
\* on a link ?id=listingId[&ref=referrer]#unlockData.
BuyPageOpened(listingId, referrer, unlockData) ==
    [listingId |-> listingId, unlockData |-> unlockData, referrer |-> referrer,
     listing |-> <<>>, isLoadingListing |-> listingId # NoListingId,
     listingError |-> FALSE,
     purchaseState |-> "idle", purchaseError |-> "none", txDigest |-> 0,
     currentAccount |-> NoAddress,
     tx |-> <<>>, pending |-> FALSE]

\* The main buy page is rendered (not the loading nor the invalid-link screen).
MainPageShown(pg) ==
    ~pg.isLoadingListing /\ pg.listingId # NoListingId /\ ~pg.listingError

\* The Purchase button is rendered and enabled.
PurchaseButtonShown(pg) ==
    /\ MainPageShown(pg)
    /\ pg.currentAccount # NoAddress
    /\ pg.purchaseState \in {"idle", "error"}
    /\ pg.listing # <<>>

\* The Download File button is rendered.
DownloadButtonShown(pg) ==
    /\ MainPageShown(pg)
    /\ pg.currentAccount # NoAddress
    /\ pg.purchaseState = "success"

\* hasValidReferrer without the referrer !== listing.seller test.
hasValidReferrer_ignoring_seller(referrer, account, listingInfo) ==
    /\ referrer # NoAddress
    /\ referrer # account
    /\ IsPositive(listingInfo.affiliatePercentage)

\* const hasValidReferrer = referrer && referrer !== currentAccount.address &&
\*   referrer !== listing.seller && listing.affiliatePercentage > 0
hasValidReferrer(referrer, account, listingInfo) ==
    /\ referrer # NoAddress
    /\ referrer # account
    /\ referrer # listingInfo.seller
    /\ IsPositive(listingInfo.affiliatePercentage)

\* The transaction block handlePurchase builds: the payment coin is split off
\* for Number(listing.price), the target is chosen by hasValidReferrer. The
\* prices of this page are below 2^53, where Number keeps the value;
\* BuildPurchaseTxU64 is the same block for prices at full width.
BuildPurchaseTx(pg) ==
    LET info == pg.listing[1]
    IN  IF hasValidReferrer(pg.referrer, pg.currentAccount, info)
        THEN [fn |-> "purchase_with_referral", id |-> info.id, payment |-> info.price,
              referrer |-> pg.referrer, sender |-> pg.currentAccount]
        ELSE [fn |-> "purchase", id |-> info.id, payment |-> info.price,
              referrer |-> NoAddress, sender |-> pg.currentAccount]

\* useState initial values of SellPage, with the locals of handleCreateListing
\* not yet bound (<<>>) and no step of it taken.
SellPageLoaded ==
    [step |-> "idle", account |-> NoAddress, file |-> <<>>, title |-> <<>>,
     description |-> <<>>, price |-> 0,
     enableAffiliate |-> FALSE, affiliatePercentage |-> 0,
     encryptionKey |-> <<>>, encrypted |-> <<>>, encryptedPayload |-> <<>>,
     walrusBlobId |-> <<>>, unlockData |-> <<>>, tx |-> <<>>,
     generatedLink |-> <<>>, affiliateLink |-> <<>>,
     error |-> "none", isLoading |-> FALSE, done |-> <<>>, runs |-> 0]

\* No library function has been called.
NoCall ==
    [fn |-> "none", args |-> <<>>, response |-> <<>>, requests |-> <<>>,
     result |-> [status |-> "none", value |-> <<>>, error |-> "none"]]

Init ==
    /\ buyPage = BuyPageOpened(NoListingId, NoAddress, NoUnlockData)
    /\ sellPage = SellPageLoaded
    /\ walrus = {}
    /\ lib = NoCall
    /\ listings = <<>>
    /\ balance = [a \in Addresses |-> InitialFunds]
    /\ events = <<>>
    /\ last = Call("none", NoAddress, 0, 0, NoAddress, 0, Ok(<<>>, <<>>), balance, balance)

(* ------------------------------ actions -------------------------------- *)

\* create_listing_with_affiliate without the range assertion.
create_listing_with_affiliate_exec_unvalidated(ls, price, blob_id, name, description, affiliate_percentage, sender) ==
    [out |-> Ok(<<>>, <<>>),
     listings |-> Append(ls, Listing(Len(ls) + 1, sender, price, blob_id, name,
                                     description, TRUE, affiliate_percentage))]

\* Body of create_listing_with_affiliate: the outcome and the listings after it.
create_listing_with_affiliate_exec(ls, price, blob_id, name, description, affiliate_percentage, sender) ==
    IF ~(affiliate_percentage <= MAX_AFFILIATE_PERCENTAGE)
    THEN [out |-> Abort(E_INVALID_AFFILIATE_PERCENTAGE), listings |-> ls]
    ELSE [out |-> Ok(<<>>, <<>>),
          listings |-> Append(ls, Listing(Len(ls) + 1, sender, price, blob_id, name,
                                          description, TRUE, affiliate_percentage))]

create_listing_with_affiliate(sender, price, blob_id, name, description, affiliate_percentage) ==
    LET r == create_listing_with_affiliate_exec(listings, price, blob_id, name,
                                                description, affiliate_percentage, sender)
    IN  /\ listings = <<>>
        /\ listings' = r.listings
        /\ last' = Call("create_listing_with_affiliate", sender, Len(r.listings), 0,
                        NoAddress, affiliate_percentage, r.out, balance, balance)
        /\ UNCHANGED <<balance, events>>

\* create_listing that passes MAX_AFFILIATE_PERCENTAGE as the default percentage.
create_listing_defaulting_to_max(sender, price, blob_id, name, description) ==
    LET r == create_listing_with_affiliate_exec(listings, price, blob_id, name,
                                                description, MAX_AFFILIATE_PERCENTAGE, sender)
    IN  /\ listings = <<>>
        /\ listings' = r.listings
        /\ last' = Call("create_listing", sender, Len(r.listings), 0, NoAddress, 0, r.out,
                        balance, balance)
        /\ UNCHANGED <<balance, events>>

\* create_listing calls create_listing_with_affiliate with percentage 0.
create_listing(sender, price, blob_id, name, description) ==
    LET r == create_listing_with_affiliate_exec(listings, price, blob_id, name,
                                                description, 0, sender)
    IN  /\ listings = <<>>
        /\ listings' = r.listings
        /\ last' = Call("create_listing", sender, Len(r.listings), 0, NoAddress, 0, r.out,
                        balance, balance)
        /\ UNCHANGED <<balance, events>>

\* purchase that closes the listing once it is sold.
purchase_closing_listing(id, payment_value, buyer) ==
    LET out == purchase_exec(listings[id], payment_value, buyer)
    IN  /\ payment_value <= balance[buyer]
        /\ out.status = "ok" => Len(events) < MaxEvents
        /\ balance' = Settle(balance, buyer, payment_value, out)
        /\ events' = events \o out.emitted
        /\ last' = Call("purchase", buyer, id, payment_value, NoAddress, 0, out,
                        balance, balance')
        /\ listings' = IF out.status = "ok"
                       THEN [listings EXCEPT ![id].is_active = FALSE]
                       ELSE listings

purchase(id, payment_value, buyer) ==
    LET out == purchase_exec(listings[id], payment_value, buyer)
    IN  /\ payment_value <= balance[buyer]
        /\ out.status = "ok" => Len(events) < MaxEvents
        /\ balance' = Settle(balance, buyer, payment_value, out)
        /\ events' = events \o out.emitted
        /\ last' = Call("purchase", buyer, id, payment_value, NoAddress, 0, out,
                        balance, balance')
        /\ UNCHANGED listings

purchase_with_referral(id, payment_value, referrer, buyer) ==
    LET out == purchase_with_referral_exec(listings[id], payment_value, referrer, buyer)
    IN  /\ payment_value <= balance[buyer]
        /\ out.status = "ok" => Len(events) < MaxEvents
        /\ balance' = Settle(balance, buyer, payment_value, out)
        /\ events' = events \o out.emitted
        /\ last' = Call("purchase_with_referral", buyer, id, payment_value, referrer, 0, out,
                        balance, balance')
        /\ UNCHANGED listings

\* deactivate_listing without the sender assertion.
deactivate_listing_exec_any_sender(listing, sender) ==
    [out |-> Ok(<<>>, <<>>), listing |-> [listing EXCEPT !.is_active = FALSE]]

\* Body of deactivate_listing: outcome and the listing after it.
deactivate_listing_exec(listing, sender) ==
    IF ~(sender = listing.seller)
    THEN [out |-> Abort(E_NOT_SELLER), listing |-> listing]
    ELSE [out |-> Ok(<<>>, <<>>), listing |-> [listing EXCEPT !.is_active = FALSE]]

deactivate_listing(id, sender) ==
    LET r == deactivate_listing_exec(listings[id], sender)
    IN  /\ listings' = [listings EXCEPT ![id] = r.listing]
        /\ last' = Call("deactivate_listing", sender, id, 0, NoAddress, 0, r.out,
                        balance, balance)
        /\ UNCHANGED <<balance, events>>

\* reactivate_listing that assigns false, as deactivate_listing does.
reactivate_listing_exec_assigning_false(listing, sender) ==
    IF ~(sender = listing.seller)
    THEN [out |-> Abort(E_NOT_SELLER), listing |-> listing]
    ELSE [out |-> Ok(<<>>, <<>>), listing |-> [listing EXCEPT !.is_active = FALSE]]

\* Body of reactivate_listing.
reactivate_listing_exec(listing, sender) ==
    IF ~(sender = listing.seller)
    THEN [out |-> Abort(E_NOT_SELLER), listing |-> listing]
    ELSE [out |-> Ok(<<>>, <<>>), listing |-> [listing EXCEPT !.is_active = TRUE]]

reactivate_listing(id, sender) ==
    LET r == reactivate_listing_exec(listings[id], sender)
    IN  /\ listings' = [listings EXCEPT ![id] = r.listing]
        /\ last' = Call("reactivate_listing", sender, id, 0, NoAddress, 0, r.out,
                        balance, balance)
        /\ UNCHANGED <<balance, events>>

\* update_affiliate_percentage that insists on an active listing.
update_affiliate_percentage_exec_requiring_active(listing, new_percentage, sender) ==
    IF ~(sender = listing.seller)
    THEN [out |-> Abort(E_NOT_SELLER), listing |-> listing]
    ELSE IF ~listing.is_active
    THEN [out |-> Abort(E_LISTING_NOT_ACTIVE), listing |-> listing]
    ELSE IF ~(new_percentage <= MAX_AFFILIATE_PERCENTAGE)
    THEN [out |-> Abort(E_INVALID_AFFILIATE_PERCENTAGE), listing |-> listing]
    ELSE [out |-> Ok(<<>>, <<>>),
          listing |-> [listing EXCEPT !.affiliate_percentage = new_percentage]]

\* update_affiliate_percentage that bounds the percentage by BASIS_POINTS.
update_affiliate_percentage_exec_bounded_by_basis_points(listing, new_percentage, sender) ==
    IF ~(sender = listing.seller)
    THEN [out |-> Abort(E_NOT_SELLER), listing |-> listing]
    ELSE IF ~(new_percentage <= BASIS_POINTS)
    THEN [out |-> Abort(E_INVALID_AFFILIATE_PERCENTAGE), listing |-> listing]
    ELSE [out |-> Ok(<<>>, <<>>),
          listing |-> [listing EXCEPT !.affiliate_percentage = new_percentage]]

\* update_affiliate_percentage that assigns the price field.
update_affiliate_percentage_exec_writing_price(listing, new_percentage, sender) ==
    IF ~(sender = listing.seller)
    THEN [out |-> Abort(E_NOT_SELLER), listing |-> listing]
    ELSE IF ~(new_percentage <= MAX_AFFILIATE_PERCENTAGE)
    THEN [out |-> Abort(E_INVALID_AFFILIATE_PERCENTAGE), listing |-> listing]
    ELSE [out |-> Ok(<<>>, <<>>), listing |-> [listing EXCEPT !.price = new_percentage]]

\* Body of update_affiliate_percentage.
update_affiliate_percentage_exec(listing, new_percentage, sender) ==
    IF ~(sender = listing.seller)
    THEN [out |-> Abort(E_NOT_SELLER), listing |-> listing]
    ELSE IF ~(new_percentage <= MAX_AFFILIATE_PERCENTAGE)
    THEN [out |-> Abort(E_INVALID_AFFILIATE_PERCENTAGE), listing |-> listing]
    ELSE [out |-> Ok(<<>>, <<>>),
          listing |-> [listing EXCEPT !.affiliate_percentage = new_percentage]]

update_affiliate_percentage(id, new_percentage, sender) ==
    LET r == update_affiliate_percentage_exec(listings[id], new_percentage, sender)
    IN  /\ listings' = [listings EXCEPT ![id] = r.listing]
        /\ last' = Call("update_affiliate_percentage", sender, id, 0, NoAddress,
                        new_percentage, r.out, balance, balance)
        /\ UNCHANGED <<balance, events>>

ListingIds == 1..Len(listings)

CreateListing ==
    \E sender \in Sellers, price \in Prices, blob_id \in BlobIds,
       name \in Names, description \in Descriptions :
        create_listing(sender, price, blob_id, name, description)

CreateListingWithAffiliate ==
    \E sender \in Sellers, price \in Prices, blob_id \in BlobIds,
       name \in Names, description \in Descriptions, pct \in Percentages :
        create_listing_with_affiliate(sender, price, blob_id, name, description, pct)

Purchase ==
    \E id \in ListingIds, buyer \in Addresses :
        \E payment_value \in PaymentValues(listings[id].price) :
            purchase(id, payment_value, buyer)

PurchaseWithReferral ==
    \E id \in ListingIds, buyer \in Addresses, referrer \in Addresses :
        \E payment_value \in PaymentValues(listings[id].price) :
            purchase_with_referral(id, payment_value, referrer, buyer)

DeactivateListing ==
    \E id \in ListingIds, sender \in Addresses : deactivate_listing(id, sender)

ReactivateListing ==
    \E id \in ListingIds, sender \in Addresses : reactivate_listing(id, sender)

UpdateAffiliatePercentage ==
    \E id \in ListingIds, sender \in Addresses, pct \in Percentages :
        update_affiliate_percentage(id, pct, sender)

\* The ledger on its own: no redeem page takes a step.
Next ==
    \/ CreateListing /\ UNCHANGED <<buyPage, sellPage, walrus, lib>>
    \/ CreateListingWithAffiliate /\ UNCHANGED <<buyPage, sellPage, walrus, lib>>
    \/ Purchase /\ UNCHANGED <<buyPage, sellPage, walrus, lib>>
    \/ PurchaseWithReferral /\ UNCHANGED <<buyPage, sellPage, walrus, lib>>
    \/ DeactivateListing /\ UNCHANGED <<buyPage, sellPage, walrus, lib>>
    \/ ReactivateListing /\ UNCHANGED <<buyPage, sellPage, walrus, lib>>
    \/ UpdateAffiliatePercentage /\ UNCHANGED <<buyPage, sellPage, walrus, lib>>

Spec == Init /\ [][Next]_vars

(* ------------------------- reading `last` ------------------------------ *)

IsPurchase(c) == c.op = "purchase"
IsReferral(c) == c.op = "purchase_with_referral"
Succeeded(c) == c.status = "ok"
Failed(c) == c.status # "ok"

RECURSIVE SentTo(_, _)
\* Total amount the coins of `transfers` carry to address a.
SentTo(transfers, a) ==
    IF transfers = <<>> THEN 0
    ELSE (IF Head(transfers).to = a THEN Head(transfers).amount ELSE 0)
         + SentTo(Tail(transfers), a)

RECURSIVE SentTotal(_)
\* Total amount the coins of `transfers` carry.
SentTotal(transfers) ==
    IF transfers = <<>> THEN 0
    ELSE Head(transfers).amount + SentTotal(Tail(transfers))

\* The call moved no coin and emitted no event.
NothingMoved(c) ==
    /\ c.transfers = <<>>
    /\ c.emitted = <<>>
    /\ \A a \in Addresses : c.balance_changes[a] = 0

(* ------------------------------ C1 ------------------------------------- *)

\* C1: after every successful purchase_with_referral on a listing whose
\* affiliate_percentage lies in 0..1000, the affiliate_fee it computed is
\* floor(price * affiliate_percentage / 10000) and affiliate_fee + seller_amount
\* is the price; price 999 at 333 bp gives 33 and 966, and 0 bp gives fee 0 and
\* seller_amount = price.
C1_FeeIsFloorOfBasisPoints ==
    (IsReferral(last) /\ Succeeded(last)
        /\ listings[last.id].affiliate_percentage \in 0..1000) =>
        LET l == listings[last.id]
            e == last.emitted[1]
        IN  /\ e.affiliate_fee = (l.price * l.affiliate_percentage) \div 10000
            /\ e.affiliate_fee + e.seller_amount = l.price
            /\ (l.price = 999 /\ l.affiliate_percentage = 333) =>
                   (e.affiliate_fee = 33 /\ e.seller_amount = 966)
            /\ l.affiliate_percentage = 0 =>
                   (e.affiliate_fee = 0 /\ e.seller_amount = l.price)

C1_Witness ==
    /\ IsReferral(last) /\ Succeeded(last)
    /\ listings[last.id].price = 999
    /\ listings[last.id].affiliate_percentage = 333
    /\ last.emitted[1].affiliate_fee = 33

(* ------------------------------ C2 ------------------------------------- *)

\* C2: every successful purchase_with_referral consumes the whole payment coin:
\* the referrer receives exactly affiliate_fee, the seller receives exactly
\* payment.value - affiliate_fee, the transfers sum to payment.value and no coin
\* goes back to the buyer, overpaid or not.
C2_WholePaymentConsumed ==
    (IsReferral(last) /\ Succeeded(last)) =>
        LET l == listings[last.id]
            fee == last.emitted[1].affiliate_fee
        IN  /\ SentTo(last.transfers, last.referrer) = fee
            /\ SentTo(last.transfers, l.seller) = last.payment - fee
            /\ SentTotal(last.transfers) = last.payment
            /\ last.sender # l.seller => SentTo(last.transfers, last.sender) = 0
            /\ \A a \in Addresses :
                   last.balance_changes[a] =
                       (IF a = last.referrer THEN fee ELSE 0)
                       + (IF a = l.seller THEN last.payment - fee ELSE 0)
                       - (IF a = last.sender THEN last.payment ELSE 0)

C2_Witness ==
    /\ IsReferral(last) /\ Succeeded(last)
    /\ last.payment > listings[last.id].price
    /\ last.emitted[1].affiliate_fee > 0
    /\ last.sender # listings[last.id].seller
    /\ last.balance_changes[last.sender] = 0 - last.payment

(* ------------------------------ C3 ------------------------------------- *)

\* C3: purchase_with_referral with a referrer equal to the buyer or to the
\* listing's seller always fails, moves no funds and emits no event.
C3_SelfReferralFails ==
    (IsReferral(last)
       /\ (last.referrer = last.sender \/ last.referrer = listings[last.id].seller)) =>
        (Failed(last) /\ NothingMoved(last))

C3_Witness ==
    /\ IsReferral(last) /\ Failed(last)
    /\ last.code = E_CANNOT_SELF_REFER
    /\ last.referrer = listings[last.id].seller
    /\ last.referrer # last.sender
    /\ listings[last.id].is_active
    /\ last.payment >= listings[last.id].price

(* ------------------------------ C4 ------------------------------------- *)

\* C4: while a listing's is_active is false, purchase and purchase_with_referral
\* on it fail for every buyer, payment and referrer, transfer nothing and emit
\* no event.
C4_InactiveListingRejectsPurchases ==
    ((IsPurchase(last) \/ IsReferral(last)) /\ ~listings[last.id].is_active) =>
        (Failed(last) /\ NothingMoved(last))

C4_Witness ==
    /\ IsReferral(last) /\ Failed(last)
    /\ ~listings[last.id].is_active
    /\ last.payment >= listings[last.id].price
    /\ last.referrer # last.sender
    /\ last.referrer # listings[last.id].seller

(* ------------------------------ C5 ------------------------------------- *)

\* C5 as stated: purchase and purchase_with_referral fail with InsufficientPayment
\* whenever payment.value < price, leaving all balances unchanged.
C5_AsStated ==
    ((IsPurchase(last) \/ IsReferral(last))
       /\ last.payment < listings[last.id].price) =>
        (Failed(last) /\ last.code = E_INSUFFICIENT_PAYMENT /\ NothingMoved(last))

\* C5 amended: purchase and purchase_with_referral fail whenever
\* payment.value < price, with InsufficientPayment when the listing is active
\* and with ListingNotActive when it is not, leaving all balances unchanged; no
\* successful purchase delivers less than price in total to seller plus referrer.
C5_UnderpaymentFails ==
    (IsPurchase(last) \/ IsReferral(last)) =>
        LET l == listings[last.id]
        IN  /\ last.payment < l.price =>
                /\ last.status = "abort"
                /\ last.code = (IF l.is_active THEN E_INSUFFICIENT_PAYMENT
                                ELSE E_LISTING_NOT_ACTIVE)
                /\ NothingMoved(last)
            /\ Succeeded(last) =>
                SentTo(last.transfers, l.seller)
                  + (IF last.referrer # l.seller
                     THEN SentTo(last.transfers, last.referrer) ELSE 0) >= l.price

C5_Witness ==
    /\ IsPurchase(last) /\ Failed(last)
    /\ listings[last.id].is_active
    /\ last.payment = listings[last.id].price - 1
    /\ last.code = E_INSUFFICIENT_PAYMENT

(* ------------------------------ C6 ------------------------------------- *)

\* C6: in every reachable state every listing has 0 <= affiliate_percentage <= 1000.
C6_PercentageInRange ==
    \A id \in ListingIds :
        /\ 0 <= listings[id].affiliate_percentage
        /\ listings[id].affiliate_percentage <= 1000

C6_Witness ==
    /\ last.op = "update_affiliate_percentage" /\ Succeeded(last)
    /\ last.percentage = 1000
    /\ listings[last.id].affiliate_percentage = 1000
    /\ events # <<>>

(* ------------------------------ C7 ------------------------------------- *)

\* C7: create_listing_with_affiliate with affiliate_percentage > 1000 fails and
\* creates no listing; update_affiliate_percentage with new_percentage > 1000
\* fails and leaves affiliate_percentage and every other field as they were.
C7_OutOfRangePercentageRejected ==
    [][(last'.op \in {"create_listing_with_affiliate", "update_affiliate_percentage"}
          /\ last'.percentage > 1000) =>
        (Failed(last') /\ listings' = listings)
      ]_vars

C7_Witness ==
    /\ last.op = "update_affiliate_percentage" /\ Failed(last)
    /\ last.sender = listings[last.id].seller
    /\ last.percentage = 1001
    /\ last.code = E_INVALID_AFFILIATE_PERCENTAGE
    /\ listings[last.id].affiliate_percentage = 333

(* ------------------------------ C8 ------------------------------------- *)

SellerOnlyOps == {"deactivate_listing", "reactivate_listing", "update_affiliate_percentage"}

\* C8: deactivate_listing, reactivate_listing and update_affiliate_percentage
\* fail when the sender is not the listing's seller, a failed call leaves
\* is_active and affiliate_percentage as they were, and is_active and
\* affiliate_percentage change only in transactions the seller sent.
C8_OnlySellerChangesListing ==
    [][/\ (last'.op \in SellerOnlyOps /\ last'.sender # listings[last'.id].seller) =>
              Failed(last')
       /\ (last'.op \in SellerOnlyOps /\ Failed(last')) =>
              /\ listings'[last'.id].is_active = listings[last'.id].is_active
              /\ listings'[last'.id].affiliate_percentage
                   = listings[last'.id].affiliate_percentage
       /\ \A id \in ListingIds :
              (listings'[id].is_active # listings[id].is_active
                 \/ listings'[id].affiliate_percentage # listings[id].affiliate_percentage) =>
                  (last'.sender = listings[id].seller /\ last'.id = id /\ Succeeded(last'))
      ]_vars

C8_Witness ==
    /\ last.op = "deactivate_listing" /\ Failed(last)
    /\ last.sender # listings[last.id].seller
    /\ listings[last.id].is_active

(* ------------------------------ C9 ------------------------------------- *)

\* C9: once a listing is created, no operation by any caller changes its
\* seller, id, price, blob_id, name or description (and the listing stays).
C9_CreationFieldsImmutable ==
    [][\A id \in ListingIds :
          /\ id <= Len(listings')
          /\ listings'[id].seller = listings[id].seller
          /\ listings'[id].id = listings[id].id
          /\ listings'[id].price = listings[id].price
          /\ listings'[id].blob_id = listings[id].blob_id
          /\ listings'[id].name = listings[id].name
          /\ listings'[id].description = listings[id].description
      ]_vars

C9_Witness ==
    /\ last.op = "update_affiliate_percentage" /\ Succeeded(last)
    /\ last.percentage = 333
    /\ listings[last.id].price = 999
    /\ ~listings[last.id].is_active
    /\ events # <<>>

(* ------------------------------ C10 ------------------------------------ *)

\* C10: a purchase or purchase_with_referral either fails with no coin moved
\* and no event, or succeeds with the seller paid, the referrer paid the
\* affiliate fee, and the event in the log: never one without the others.
C10_AllOrNothing ==
    (IsPurchase(last) \/ IsReferral(last)) =>
        LET l == listings[last.id]
        IN  \/ Failed(last) /\ NothingMoved(last)
            \/ /\ Succeeded(last)
               /\ \E i \in 1..Len(last.transfers) : last.transfers[i].to = l.seller
               /\ Len(last.emitted) = 1
               /\ events # <<>> /\ events[Len(events)] = last.emitted[1]
               /\ IsPurchase(last) => SentTo(last.transfers, l.seller) = last.payment
               /\ IsReferral(last) =>
                    /\ SentTo(last.transfers, last.referrer) = last.emitted[1].affiliate_fee
                    /\ SentTo(last.transfers, l.seller)
                         = last.payment - last.emitted[1].affiliate_fee
               /\ \A a \in Addresses :
                    last.balance_changes[a] =
                        SentTo(last.transfers, a)
                        - (IF a = last.sender THEN last.payment ELSE 0)

C10_Witness ==
    /\ IsReferral(last) /\ Succeeded(last)
    /\ Len(last.transfers) = 2
    /\ last.transfers[1].to = last.referrer
    /\ last.transfers[2].to = listings[last.id].seller
    /\ events[Len(events)] = last.emitted[1]

(* ------------------------------ C11 ------------------------------------ *)

\* C11: a successful plain purchase transfers the entire payment (any amount
\* above price included) to the seller, pays no referrer, returns no change to
\* the buyer, and emits a purchase event whose affiliate_fee is 0.  (Stated for
\* listings of positive price.)
C11_PlainPurchasePaysSellerAll ==
    (IsPurchase(last) /\ Succeeded(last) /\ listings[last.id].price > 0) =>
        LET l == listings[last.id]
            e == last.emitted[1]
        IN  /\ last.transfers = <<Transfer(l.seller, last.payment)>>
            /\ \A a \in Addresses :
                   last.balance_changes[a] =
                       (IF a = l.seller THEN last.payment ELSE 0)
                       - (IF a = last.sender THEN last.payment ELSE 0)
            /\ Len(last.emitted) = 1
            /\ "affiliate_fee" \in DOMAIN e
            /\ e.affiliate_fee = 0

(* ------------------------------ C12 ------------------------------------ *)

\* C12: in every reachable state every listing has price > 0.
C12_PricePositive ==
    \A id \in ListingIds : listings[id].price > 0

(* ------------------------------ C13 ------------------------------------ *)

\* C13: in every reachable state every listing has a non-empty blob_id (locator).
C13_LocatorNonEmpty ==
    \A id \in ListingIds : listings[id].blob_id # <<>>

(* ------------------------------ C14 ------------------------------------ *)

\* C14: a listing is active right after creation; deactivate_listing by the
\* seller makes it inactive and reactivate_listing by the seller makes it
\* active; every call but a failed creation finds its listing; and in every
\* state the seller's reactivate_listing succeeds and leaves the listing active,
\* on which a purchase paying the price succeeds for every buyer.
C14_ActiveInactiveNoTerminal ==
    /\ (last.op \in {"create_listing", "create_listing_with_affiliate"}
          /\ Succeeded(last)) =>
           (last.id \in ListingIds /\ listings[last.id].is_active)
    /\ (last.op \notin {"none", "create_listing", "create_listing_with_affiliate"}) =>
           last.id \in ListingIds
    /\ (last.op = "deactivate_listing"
          /\ last.sender = listings[last.id].seller) =>
           (Succeeded(last) /\ ~listings[last.id].is_active)
    /\ (last.op = "reactivate_listing"
          /\ last.sender = listings[last.id].seller) =>
           (Succeeded(last) /\ listings[last.id].is_active)
    /\ \A id \in ListingIds :
           LET r == reactivate_listing_exec(listings[id], listings[id].seller)
           IN  /\ Succeeded(r.out)
               /\ r.listing.is_active
               /\ \A buyer \in Addresses :
                      Succeeded(purchase_exec(r.listing, r.listing.price, buyer))

C14_Witness ==
    /\ last.op = "reactivate_listing" /\ Succeeded(last)
    /\ last.sender = listings[last.id].seller
    /\ listings[last.id].is_active
    /\ events # <<>>

(* ------------------------------ C15 ------------------------------------ *)

\* C15: update_affiliate_percentage by the seller with a percentage in range
\* succeeds whether the listing is active or not and never changes is_active;
\* deactivate_listing and reactivate_listing never change affiliate_percentage.
C15_CommissionIndependentOfActivation ==
    [][/\ (last'.op = "update_affiliate_percentage"
             /\ last'.sender = listings[last'.id].seller
             /\ last'.percentage <= 1000) =>
              (Succeeded(last')
                 /\ listings'[last'.id].affiliate_percentage = last'.percentage)
       /\ last'.op = "update_affiliate_percentage" =>
              listings'[last'.id].is_active = listings[last'.id].is_active
       /\ last'.op \in {"deactivate_listing", "reactivate_listing"} =>
              listings'[last'.id].affiliate_percentage
                = listings[last'.id].affiliate_percentage
      ]_vars

C15_Witness ==
    /\ last.op = "update_affiliate_percentage" /\ Succeeded(last)
    /\ ~listings[last.id].is_active
    /\ listings[last.id].affiliate_percentage = 1000

(* ------------------------------ C16 ------------------------------------ *)

\* C16: create_listing(price, blob_id, name, description) produces exactly the
\* listing create_listing_with_affiliate(price, blob_id, name, description, 0)
\* produces for the same sender: that seller, price, blob_id, name and
\* description, is_active = true and affiliate_percentage = 0.
C16_CreateListingIsZeroCommission ==
    [][\A sender \in Sellers, price \in Prices, blob_id \in BlobIds,
          name \in Names, description \in Descriptions :
           create_listing(sender, price, blob_id, name, description) =>
              /\ Succeeded(last')
              /\ listings' = create_listing_with_affiliate_exec(
                                 listings, price, blob_id, name, description, 0, sender).listings
              /\ listings'[last'.id]
                   = Listing(last'.id, sender, price, blob_id, name, description, TRUE, 0)
      ]_vars

C16_Witness ==
    /\ last.op = "create_listing" /\ Succeeded(last)
    /\ listings[last.id].affiliate_percentage = 0
    /\ listings[last.id].price = 999
    /\ listings[last.id].blob_id = <<7>>
    /\ listings[last.id].is_active

(* ------------------------------ C17 ------------------------------------ *)

\* C17: in every successful purchase_with_referral the seller's share
\* price - floor(price * bp / 10000) is not negative and not less than 90% of
\* the price.
C17_SellerShareAtLeastNinetyPercent ==
    (IsReferral(last) /\ Succeeded(last)) =>
        LET l == listings[last.id]
            share == last.emitted[1].seller_amount
        IN  /\ share = l.price - ((l.price * l.affiliate_percentage) \div 10000)
            /\ share >= 0
            /\ 10 * share >= 9 * l.price

C17_Witness ==
    /\ IsReferral(last) /\ Succeeded(last)
    /\ listings[last.id].price = 999
    /\ listings[last.id].affiliate_percentage = 1000
    /\ last.emitted[1].seller_amount = 900

(* ------------------------------ C18 ------------------------------------ *)

\* C18: when purchase_with_referral is paid with payment.value > price, the
\* seller_amount of the emitted event equals what the seller receives,
\* payment.value - affiliate_fee.  (Stated for listings of positive price.)
C18_EventSellerAmountIsAmountReceived ==
    (IsReferral(last) /\ Succeeded(last) /\ listings[last.id].price > 0
       /\ last.payment > listings[last.id].price) =>
        LET l == listings[last.id]
            e == last.emitted[1]
        IN  /\ SentTo(last.transfers, l.seller) = last.payment - e.affiliate_fee
            /\ e.seller_amount = SentTo(last.transfers, l.seller)


(* ------------------- the redeem page as a state machine ---------------- *)

\* Values a redeem link can carry.
LinkListingIds == {NoListingId, 1}
LinkReferrers == {NoAddress} \cup Addresses
LinkUnlockData == {NoUnlockData, "k"}
Wallets == {"alice", "bob"}

\* Listings a seller can have published and toggled before the page is opened.
PublishedListings ==
    { Listing(1, "alice", price, blob_id, <<110>>, <<100>>, is_active, pct) :
        price \in {10, 999}, blob_id \in BlobIds, is_active \in BOOLEAN,
        pct \in {0, 1000} }

\* A redeem link is opened on a ledger that holds one published listing.
InitRedeem ==
    /\ \E l \in PublishedListings : listings = <<l>>
    /\ balance = [a \in Addresses |-> InitialFunds]
    /\ events = <<>>
    /\ last = Call("none", NoAddress, 0, 0, NoAddress, 0, Ok(<<>>, <<>>), balance, balance)
    /\ \E listingId \in LinkListingIds, referrer \in LinkReferrers, unlockData \in LinkUnlockData :
           buyPage = BuyPageOpened(listingId, referrer, unlockData)
    /\ sellPage = SellPageLoaded
    /\ walrus = {}
    /\ lib = NoCall

\* fetchListing, retries included, ends either with setListing(...) of the
\* object read or with setListingError(...); finally setIsLoadingListing(false).
fetchListing(found) ==
    /\ buyPage.isLoadingListing
    /\ found => buyPage.listingId \in ListingIds
    /\ buyPage' = IF found
                  THEN [buyPage EXCEPT !.listing = <<ListingInfo(listings[buyPage.listingId])>>,
                                       !.isLoadingListing = FALSE]
                  ELSE [buyPage EXCEPT !.listingError = TRUE, !.isLoadingListing = FALSE]
    /\ UNCHANGED <<listings, balance, events, last>>

\* useCurrentAccount() turns non-null: the visitor connects a wallet.
connectWallet(account) ==
    /\ buyPage.currentAccount = NoAddress
    /\ buyPage' = [buyPage EXCEPT !.currentAccount = account]
    /\ UNCHANGED <<listings, balance, events, last>>

\* handlePurchase up to signAndExecuteTransaction: the click on Purchase, the
\* getObject check, and the transaction handed to the wallet.
handlePurchase(objectRead) ==
    /\ PurchaseButtonShown(buyPage)
    /\ buyPage' = IF objectRead
                  THEN [buyPage EXCEPT !.purchaseState = "purchasing", !.purchaseError = "none",
                                       !.tx = <<BuildPurchaseTx(buyPage)>>, !.pending = TRUE]
                  ELSE [buyPage EXCEPT !.purchaseState = "error", !.purchaseError = "purchase_failed"]
    /\ UNCHANGED <<listings, balance, events, last>>

\* onError of signAndExecuteTransaction without an execution: the wallet
\* request is rejected.
signatureRejected ==
    /\ buyPage.pending
    /\ buyPage' = [buyPage EXCEPT !.pending = FALSE, !.purchaseState = "error",
                                  !.purchaseError = "purchase_failed"]
    /\ UNCHANGED <<listings, balance, events, last>>

\* The submitted transaction executed on the listing as the page read it
\* (is_active and affiliate_percentage of the fetched ListingInfo).
transactionExecuted_on_listing_read ==
    /\ buyPage.pending
    /\ LET tx == buyPage.tx[1]
           info == buyPage.listing[1]
           read == [listings[tx.id] EXCEPT !.is_active = info.isActive,
                                           !.affiliate_percentage = info.affiliatePercentage.num]
           out == IF tx.fn = "purchase_with_referral"
                  THEN purchase_with_referral_exec(read, tx.payment, tx.referrer, tx.sender)
                  ELSE purchase_exec(read, tx.payment, tx.sender)
       IN  /\ tx.payment <= balance[tx.sender]
           /\ out.status = "ok" => Len(events) < MaxEvents
           /\ balance' = Settle(balance, tx.sender, tx.payment, out)
           /\ events' = events \o out.emitted
           /\ last' = Call(tx.fn, tx.sender, tx.id, tx.payment, tx.referrer, 0, out,
                           balance, balance')
           /\ UNCHANGED listings
    /\ buyPage' = IF Succeeded(last')
                  THEN [buyPage EXCEPT !.pending = FALSE, !.purchaseState = "success",
                                       !.txDigest = Len(events')]
                  ELSE [buyPage EXCEPT !.pending = FALSE, !.purchaseState = "error",
                                       !.purchaseError = "purchase_failed"]

\* onSuccess that starts the download by itself.
transactionExecuted_auto_download ==
    /\ buyPage.pending
    /\ LET tx == buyPage.tx[1]
       IN  IF tx.fn = "purchase_with_referral"
           THEN purchase_with_referral(tx.id, tx.payment, tx.referrer, tx.sender)
           ELSE purchase(tx.id, tx.payment, tx.sender)
    /\ buyPage' = IF Succeeded(last')
                  THEN [buyPage EXCEPT !.pending = FALSE, !.purchaseState = "downloading",
                                       !.txDigest = Len(events')]
                  ELSE [buyPage EXCEPT !.pending = FALSE, !.purchaseState = "error",
                                       !.purchaseError = "purchase_failed"]

\* The submitted transaction executes on the ledger; onSuccess sets txDigest and
\* "success", onError sets purchaseError and "error".
transactionExecuted ==
    /\ buyPage.pending
    /\ LET tx == buyPage.tx[1]
       IN  IF tx.fn = "purchase_with_referral"
           THEN purchase_with_referral(tx.id, tx.payment, tx.referrer, tx.sender)
           ELSE purchase(tx.id, tx.payment, tx.sender)
    /\ buyPage' = IF Succeeded(last')
                  THEN [buyPage EXCEPT !.pending = FALSE, !.purchaseState = "success",
                                       !.txDigest = Len(events')]
                  ELSE [buyPage EXCEPT !.pending = FALSE, !.purchaseState = "error",
                                       !.purchaseError = "purchase_failed"]

\* handleDownload up to the first await: without the unlock key it only sets
\* purchaseError, otherwise the page shows "downloading".
handleDownload ==
    /\ DownloadButtonShown(buyPage)
    /\ buyPage' = IF buyPage.unlockData = NoUnlockData \/ buyPage.listing = <<>>
                  THEN [buyPage EXCEPT !.purchaseError = "missing_unlock_key"]
                  ELSE [buyPage EXCEPT !.purchaseState = "downloading"]
    /\ UNCHANGED <<listings, balance, events, last>>

\* The rest of handleDownload: decode, blob id validation, Walrus download,
\* decryption; any throw sets purchaseError and "error".
downloadFinished(outcome) ==
    /\ buyPage.purchaseState = "downloading"
    /\ outcome = "ok" => Trim(buyPage.listing[1].blobId) # <<>>
    /\ buyPage' = IF outcome = "ok"
                  THEN [buyPage EXCEPT !.purchaseState = "success"]
                  ELSE [buyPage EXCEPT !.purchaseState = "error", !.purchaseError = "download_failed"]
    /\ UNCHANGED <<listings, balance, events, last>>

DownloadOutcomes == {"ok", "decode_failed", "download_failed", "decrypt_failed"}

FetchListing == \E found \in BOOLEAN : fetchListing(found)
ConnectWallet == \E account \in Wallets : connectWallet(account)
HandlePurchase == \E objectRead \in BOOLEAN : handlePurchase(objectRead)
HandleDownload == handleDownload
DownloadFinished == \E outcome \in DownloadOutcomes : downloadFinished(outcome)

\* The seller's transactions while the page is open.
SellerActs ==
    /\ \/ \E id \in ListingIds : deactivate_listing(id, listings[id].seller)
       \/ \E id \in ListingIds : reactivate_listing(id, listings[id].seller)
       \/ \E id \in ListingIds, pct \in {0, 333, 1000} :
              update_affiliate_percentage(id, pct, listings[id].seller)
    /\ UNCHANGED buyPage

NextRedeem ==
    \/ FetchListing /\ UNCHANGED <<sellPage, walrus, lib>>
    \/ ConnectWallet /\ UNCHANGED <<sellPage, walrus, lib>>
    \/ HandlePurchase /\ UNCHANGED <<sellPage, walrus, lib>>
    \/ signatureRejected /\ UNCHANGED <<sellPage, walrus, lib>>
    \/ transactionExecuted /\ UNCHANGED <<sellPage, walrus, lib>>
    \/ HandleDownload /\ UNCHANGED <<sellPage, walrus, lib>>
    \/ DownloadFinished /\ UNCHANGED <<sellPage, walrus, lib>>
    \/ SellerActs /\ UNCHANGED <<sellPage, walrus, lib>>

SpecRedeem == InitRedeem /\ [][NextRedeem]_vars

\* The page has a paid purchase on record.
Paid(pg) == pg.txDigest # 0

(* C19: Once the payment has succeeded, a failed download or decryption leaves
   the buyer able to invoke the download step again: the page that shows the
   download failure offers the Download File button, so no further purchase
   transaction is needed to retry. *)
C19_DownloadRetryOffered ==
    (Paid(buyPage) /\ buyPage.listing[1].blobId # <<>>
        /\ buyPage.purchaseState = "error"
        /\ buyPage.purchaseError = "download_failed")
    => DownloadButtonShown(buyPage)

(* C20: The transaction the redeem page builds targets purchase_with_referral,
   with the link's referrer, exactly when the link carries a referrer that
   differs from the connected buyer and from the seller of the listing as read
   and the commission as read is nonzero; otherwise it targets purchase. *)
C20_ReferralSubmittedExactlyWhenValid ==
    buyPage.tx # <<>> =>
        LET tx == buyPage.tx[1]
            info == buyPage.listing[1]
            valid == /\ buyPage.referrer # NoAddress
                     /\ buyPage.referrer # tx.sender
                     /\ buyPage.referrer # info.seller
                     /\ info.affiliatePercentage.num > 0
        IN  /\ tx.fn \in {"purchase", "purchase_with_referral"}
            /\ tx.fn = "purchase_with_referral" <=> valid
            /\ tx.fn = "purchase_with_referral" => tx.referrer = buyPage.referrer
            /\ tx.payment = info.price /\ tx.id = info.id

C20_Witness ==
    /\ buyPage.tx # <<>>
    /\ buyPage.tx[1].fn = "purchase_with_referral"
    /\ buyPage.pending

(* ------------------------------ C30 ------------------------------------ *)

C23_PurchaseSeesListingAtExecution ==
    [][(last'.op \in {"purchase", "purchase_with_referral"} /\ Succeeded(last')) =>
          LET l == listings[last'.id]
              e == last'.emitted[1]
          IN  /\ l.is_active
              /\ last'.payment >= l.price
              /\ e.price = l.price
              /\ IsReferral(last') =>
                     /\ e.affiliate_fee = (l.price * l.affiliate_percentage) \div BASIS_POINTS
                     /\ e.seller_amount = l.price - e.affiliate_fee
                     /\ SentTo(last'.transfers, last'.referrer) = e.affiliate_fee
              /\ IsPurchase(last') =>
                     SentTo(last'.transfers, l.seller) = last'.payment
      ]_vars

\* The page read 1000 basis points, the purchase executed at 333.
C23_Witness ==
    /\ IsReferral(last) /\ Succeeded(last)
    /\ buyPage.purchaseState = "success"
    /\ buyPage.listing[1].affiliatePercentage.num = 1000
    /\ listings[last.id].price = 999
    /\ last.emitted[1].affiliate_fee = 33

(* ----------------------- library functions ----------------------------- *)

\* Length of the AES-GCM initialization vector: new Uint8Array(12), slice(0, 12).
IV_LENGTH == 12

\* Largest ciphertext, in bytes, handed to the framing functions.
MaxCiphertextLen == 2

\* Byte values used for data.
Bytes == {0, 255}

\* Byte strings of length 0..n.
ByteStrings(n) == UNION { [1..k -> Bytes] : k \in 0..n }

\* Initialization vectors: 12 bytes, the last one varying independently.
Ivs == { [i \in 1..IV_LENGTH |-> IF i = IV_LENGTH THEN c ELSE b] : b, c \in Bytes }

\* parseEncryptedPayload cutting the IV one byte short.
parseEncryptedPayload_short_iv(payload) ==
    [iv |-> SubSeq(payload, 1, IF Len(payload) < 11 THEN Len(payload) ELSE 11),
     encryptedData |-> SubSeq(payload, 12, Len(payload))]

\* createEncryptedPayload: combined = iv followed by the encrypted bytes.
createEncryptedPayload(encryptedBlob, iv) == iv \o encryptedBlob

\* parseEncryptedPayload: payloadBytes.slice(0, 12) and payloadBytes.slice(12).
parseEncryptedPayload(payload) ==
    [iv |-> SubSeq(payload, 1, IF Len(payload) < IV_LENGTH THEN Len(payload) ELSE IV_LENGTH),
     encryptedData |-> SubSeq(payload, IV_LENGTH + 1, Len(payload))]

\* What fetch gives back: a rejected promise (transport failure) or a Response
\* with its ok flag, status and body (json for the publisher, bytes for the
\* aggregator).
FetchFailed == [kind |-> "failed", ok |-> FALSE, status |-> 0, json |-> <<>>, bytes |-> <<>>]
Response(status, json, bytes) ==
    [kind |-> "response", ok |-> status \in 200..299, status |-> status,
     json |-> json, bytes |-> bytes]

\* WalrusStoreResponse: each of the two optional members is absent (<<>>) or
\* carries a blobId.
WalrusStoreResponse(alreadyCertified, newlyCreated) ==
    [alreadyCertified |-> alreadyCertified, newlyCreated |-> newlyCreated]

\* uploadToWalrus that accepts only the newlyCreated shape.
uploadToWalrus_newly_created_only(encryptedBlob, response) ==
    [requests |-> <<[method |-> "PUT", blobId |-> <<>>, body |-> encryptedBlob]>>,
     result |->
        IF response.kind = "failed" THEN Throw("fetch failed")
        ELSE IF ~response.ok THEN Throw("Walrus upload failed")
        ELSE IF response.json.newlyCreated # <<>> /\ response.json.newlyCreated[1] # <<>>
             THEN Return(response.json.newlyCreated[1])
             ELSE Throw("Unexpected Walrus response format")]

\* uploadToWalrus: PUT the blob; a failed fetch is rethrown, a non-ok status
\* throws, alreadyCertified is looked at before newlyCreated, and a missing or
\* empty blobId throws.
uploadToWalrus(encryptedBlob, response) ==
    [requests |-> <<[method |-> "PUT", blobId |-> <<>>, body |-> encryptedBlob]>>,
     result |->
        IF response.kind = "failed" THEN Throw("fetch failed")
        ELSE IF ~response.ok THEN Throw("Walrus upload failed")
        ELSE LET blobId == IF response.json.alreadyCertified # <<>>
                           THEN response.json.alreadyCertified[1]
                           ELSE IF response.json.newlyCreated # <<>>
                                THEN response.json.newlyCreated[1]
                                ELSE <<>>
             IN  IF blobId = <<>>
                 THEN Throw("Unexpected Walrus response format")
                 ELSE Return(blobId)]

\* downloadFromWalrus that tests only !blobId before the request.
downloadFromWalrus_untrimmed(blobId, response) ==
    IF blobId = <<>>
    THEN [requests |-> <<>>, result |-> Throw("Blob ID is empty")]
    ELSE [requests |-> <<[method |-> "GET", blobId |-> blobId, body |-> <<>>]>>,
          result |->
             IF response.kind = "failed" THEN Throw("fetch failed")
             ELSE IF ~response.ok
                  THEN IF response.status = 404
                       THEN Throw("File not found on Walrus")
                       ELSE Throw("Walrus download failed")
                  ELSE Return(response.bytes)]

\* downloadFromWalrus: an empty or whitespace-only blobId throws before fetch;
\* otherwise GET, a failed fetch is rethrown, 404 and other non-ok statuses
\* throw, an ok response gives its bytes.
downloadFromWalrus(blobId, response) ==
    IF blobId = <<>> \/ Trim(blobId) = <<>>
    THEN [requests |-> <<>>, result |-> Throw("Blob ID is empty")]
    ELSE [requests |-> <<[method |-> "GET", blobId |-> blobId, body |-> <<>>]>>,
          result |->
             IF response.kind = "failed" THEN Throw("fetch failed")
             ELSE IF ~response.ok
                  THEN IF response.status = 404
                       THEN Throw("File not found on Walrus")
                       ELSE Throw("Walrus download failed")
                  ELSE Return(response.bytes)]

\* checkBlobExists that lets a failed fetch escape.
checkBlobExists_rethrowing(blobId, response) ==
    [requests |-> <<[method |-> "HEAD", blobId |-> blobId, body |-> <<>>]>>,
     result |-> IF response.kind = "failed" THEN Throw("fetch failed")
                ELSE Return(response.ok)]

\* checkBlobExists: HEAD; response.ok, or false when fetch throws.
checkBlobExists(blobId, response) ==
    [requests |-> <<[method |-> "HEAD", blobId |-> blobId, body |-> <<>>]>>,
     result |-> IF response.kind = "failed" THEN Return(FALSE)
                ELSE Return(response.ok)]

(* --------------------------- the blob store ---------------------------- *)

RECURSIVE HexOf(_)
HexOf(bytes) ==
    IF bytes = <<>> THEN <<>>
    ELSE <<HexDigit(Head(bytes) \div 16), HexDigit(Head(bytes) % 16)>> \o HexOf(Tail(bytes))

\* The blobId the store gives a blob: derived from the content alone, so equal
\* blobs get equal ids and different blobs different ids.
BlobIdOf(blob) == <<98>> \o HexOf(blob)

\* The record the store keeps for a blob.
StoredBlob(blob) == [blobId |-> BlobIdOf(blob), payload |-> blob]

\* PUT /v1/blobs: the possible answers with the store that results. The fetch
\* can fail before or after the blob was stored, the publisher can answer with
\* an error status or with a body of neither shape; otherwise it answers
\* alreadyCertified for a blob it holds and newlyCreated for a new one.
StorePut(store, blob) ==
    { [response |-> FetchFailed, store |-> store],
      [response |-> FetchFailed, store |-> store \cup {StoredBlob(blob)}],
      [response |-> Response(500, <<>>, <<>>), store |-> store],
      [response |-> Response(200, WalrusStoreResponse(<<>>, <<>>), <<>>), store |-> store],
      IF StoredBlob(blob) \in store
      THEN [response |-> Response(200, WalrusStoreResponse(<<BlobIdOf(blob)>>, <<>>), <<>>),
            store |-> store]
      ELSE [response |-> Response(200, WalrusStoreResponse(<<>>, <<BlobIdOf(blob)>>), <<>>),
            store |-> store \cup {StoredBlob(blob)}] }

\* GET or HEAD /v1/blobs/<blobId>: the possible answers.
StoreGet(store, blobId) ==
    { FetchFailed, Response(500, <<>>, <<>>) }
        \cup { Response(200, <<>>, b.payload) : b \in {x \in store : x.blobId = blobId} }
        \cup (IF \E b \in store : b.blobId = blobId THEN {} ELSE {Response(404, <<>>, <<>>)})

\* What `lib` records of a call.
LibCall(fn, args, response, out) ==
    [fn |-> fn, args |-> args, response |-> response,
     requests |-> out.requests, result |-> out.result]

\* Blobs handed to uploadToWalrus and blobIds handed to the aggregator calls.
UploadBlobs == ByteStrings(1)
Locators(store) ==
    {<<>>, <<32>>, <<9, 32>>, <<32, 98, 32>>, BlobIdOf(<<0>>)}
        \cup {b.blobId : b \in store}

InitLib ==
    /\ listings = <<>>
    /\ balance = [a \in Addresses |-> InitialFunds]
    /\ events = <<>>
    /\ last = Call("none", NoAddress, 0, 0, NoAddress, 0, Ok(<<>>, <<>>), balance, balance)
    /\ buyPage = BuyPageOpened(NoListingId, NoAddress, NoUnlockData)
    /\ sellPage = SellPageLoaded
    /\ walrus = {}
    /\ lib = NoCall

CallCreateEncryptedPayload ==
    /\ \E encrypted \in ByteStrings(MaxCiphertextLen), iv \in Ivs :
           lib' = LibCall("createEncryptedPayload", <<encrypted, iv>>, <<>>,
                          [requests |-> <<>>,
                           result |-> Return(createEncryptedPayload(encrypted, iv))])
    /\ UNCHANGED <<listings, balance, events, last, buyPage, sellPage, walrus>>

\* The payload just framed is unframed.
CallParseEncryptedPayload ==
    /\ lib.fn = "createEncryptedPayload"
    /\ lib' = LibCall("parseEncryptedPayload", <<lib.result.value>>, <<>>,
                      [requests |-> <<>>,
                       result |-> Return(parseEncryptedPayload(lib.result.value))])
    /\ UNCHANGED <<listings, balance, events, last, buyPage, sellPage, walrus>>

CallUploadToWalrus ==
    /\ \E blob \in UploadBlobs : \E answer \in StorePut(walrus, blob) :
           /\ lib' = LibCall("uploadToWalrus", <<blob>>, <<answer.response>>,
                             uploadToWalrus(blob, answer.response))
           /\ walrus' = answer.store
    /\ UNCHANGED <<listings, balance, events, last, buyPage, sellPage>>

CallDownloadFromWalrus ==
    /\ \E blobId \in Locators(walrus) : \E response \in StoreGet(walrus, blobId) :
           LET out == downloadFromWalrus(blobId, response)
           IN  lib' = LibCall("downloadFromWalrus", <<blobId>>,
                              IF out.requests = <<>> THEN <<>> ELSE <<response>>, out)
    /\ UNCHANGED <<listings, balance, events, last, buyPage, sellPage, walrus>>

CallCheckBlobExists ==
    /\ \E blobId \in Locators(walrus) : \E response \in StoreGet(walrus, blobId) :
           lib' = LibCall("checkBlobExists", <<blobId>>, <<response>>,
                          checkBlobExists(blobId, response))
    /\ UNCHANGED <<listings, balance, events, last, buyPage, sellPage, walrus>>

\* Files a seller can pick: names with a quote, a Latin-1 and a non-Latin-1
\* character, with and without a MIME type, empty and non-empty content.
Files ==
    { File(name, type, bytes) :
        name \in {<<97>>, <<34, 233>>, <<8364>>}, type \in {<<>>, <<116>>},
        bytes \in {<<>>, <<0, 255>>} }

\* Link fragments that no publish produced: empty, not base64, base64 of text
\* that is not JSON, of an object without a key, and of one with a 1-byte key.
CorruptUnlockData ==
    {<<>>, <<33>>, btoa(<<97, 98, 99>>).value, btoa(<<123, 125>>).value,
     btoa(JsonStringify(<<81, 81, 61, 61>>, <<97>>, <<>>)).value}

CallEncryptFile ==
    /\ \E file \in Files, key \in Keys, iv \in Ivs :
           lib' = LibCall("encryptFile", <<file, key, iv>>, <<>>,
                          [requests |-> <<>>, result |-> Return(encryptFile(file, key, iv))])
    /\ UNCHANGED <<listings, balance, events, last, buyPage, sellPage, walrus>>

\* What encryptFile just returned is decrypted, under the same or another key.
CallDecryptFile ==
    /\ lib.fn = "encryptFile"
    /\ \E key \in Keys :
           LET e == lib.result.value
           IN  lib' = LibCall("decryptFile",
                              <<e.encryptedBlob, key, e.iv, e.originalName, e.originalType>>, <<>>,
                              [requests |-> <<>>,
                               result |-> decryptFile(e.encryptedBlob, key, e.iv,
                                                      e.originalName, e.originalType)])
    /\ UNCHANGED <<listings, balance, events, last, buyPage, sellPage, walrus>>

CallEncodeUnlockData ==
    /\ \E key \in Keys, file \in Files :
           lib' = LibCall("encodeUnlockData", <<key, file.name, file.type>>, <<>>,
                          [requests |-> <<>>,
                           result |-> encodeUnlockData(key, file.name, file.type)])
    /\ UNCHANGED <<listings, balance, events, last, buyPage, sellPage, walrus>>

\* A fragment is decoded: the one encodeUnlockData just returned, or a corrupt one.
CallDecodeUnlockData ==
    /\ \E encoded \in CorruptUnlockData \cup
                      (IF lib.fn = "encodeUnlockData" /\ Returned(lib.result)
                       THEN {lib.result.value} ELSE {}) :
           lib' = LibCall("decodeUnlockData", <<encoded>>, <<>>,
                          [requests |-> <<>>, result |-> decodeUnlockData(encoded)])
    /\ UNCHANGED <<listings, balance, events, last, buyPage, sellPage, walrus>>

CallGetListingDetails ==
    /\ \E object \in {RpcThrew, RpcNoData, RpcPackage} \cup {RpcObject(l) : l \in PublishedListings} :
           lib' = LibCall("getListingDetails", <<1>>, <<object>>,
                          [requests |-> <<"getObject">>, result |-> getListingDetails(1, object)])
    /\ UNCHANGED <<listings, balance, events, last, buyPage, sellPage, walrus>>

CallExtractBlobId ==
    /\ \E fields \in PublishedListings :
           lib' = LibCall("extractBlobId", <<fields>>, <<>>,
                          [requests |-> <<>>, result |-> Return(extractBlobId(fields))])
    /\ UNCHANGED <<listings, balance, events, last, buyPage, sellPage, walrus>>

NextLib ==
    \/ CallCreateEncryptedPayload
    \/ CallParseEncryptedPayload
    \/ CallUploadToWalrus
    \/ CallDownloadFromWalrus
    \/ CallCheckBlobExists

\* Calls of the encryption envelope and of the listing readers.
NextEnvelope ==
    \/ CallEncryptFile
    \/ CallDecryptFile
    \/ CallEncodeUnlockData
    \/ CallDecodeUnlockData
    \/ CallGetListingDetails
    \/ CallExtractBlobId

SpecEnvelope == InitLib /\ [][NextEnvelope]_vars

SpecLib == InitLib /\ [][NextLib]_vars

(* ------------------------------ C24 ------------------------------------ *)

\* C24: parseEncryptedPayload applied to createEncryptedPayload(ciphertext, iv),
\* for a 12-byte iv and any ciphertext (the empty one included), returns that
\* iv and those ciphertext bytes.
C24_UnframeInvertsFrame ==
    [][(lib.fn = "createEncryptedPayload" /\ lib'.fn = "parseEncryptedPayload") =>
          /\ Len(lib.args[2]) = IV_LENGTH
          /\ lib'.args[1] = lib.result.value
          /\ lib'.result.value.iv = lib.args[2]
          /\ lib'.result.value.encryptedData = lib.args[1]
      ]_vars

\* A framed payload whose IV ends in a byte that differs from the ciphertext's
\* first byte has been unframed.
C24_Witness ==
    /\ lib.fn = "parseEncryptedPayload"
    /\ Len(lib.args[1]) = IV_LENGTH + MaxCiphertextLen
    /\ lib.result.value.iv[IV_LENGTH] # lib.result.value.encryptedData[1]
    /\ lib.result.value.iv[1] = 255

(* ------------------------------ C26 ------------------------------------ *)

C27_EmptyLocatorRejectedBeforeRequest ==
    (lib.fn = "downloadFromWalrus" /\ Trim(lib.args[1]) = <<>>) =>
        (Threw(lib.result) /\ lib.requests = <<>>)

C27_Witness ==
    /\ lib.fn = "downloadFromWalrus"
    /\ lib.args[1] = <<9, 32>>
    /\ Threw(lib.result)
    /\ lib.requests = <<>>

(* ------------------------------ C28 ------------------------------------ *)

\* C28: checkBlobExists never throws: for every blobId and every answer of the
\* store it returns a boolean, false when the fetch fails or the status is not
\* ok, true when the status is ok.
C28_ExistsNeverThrows ==
    lib.fn = "checkBlobExists" =>
        /\ Returned(lib.result)
        /\ lib.result.value \in BOOLEAN
        /\ lib.response[1].kind = "failed" => lib.result.value = FALSE
        /\ lib.response[1].kind = "response" => lib.result.value = lib.response[1].ok

C28_Witness ==
    /\ lib.fn = "checkBlobExists"
    /\ lib.response[1].kind = "failed"
    /\ lib.result = Return(FALSE)

(* ------------------------------ C29 ------------------------------------ *)

\* C29: a component surfaces its failures unchanged: decodeUnlockData throws
\* what its decoding steps threw, and getListingDetails throws what getObject
\* threw instead of returning a value.
C29_FailuresSurfaceUnchanged ==
    /\ lib.fn = "decodeUnlockData" => lib.result = decodeUnlockDataBody(lib.args[1])
    /\ (lib.fn = "getListingDetails" /\ lib.response[1].kind = "threw") =>
           (Threw(lib.result) /\ lib.result.error = lib.response[1].error)

(* ------------------------ the publish page ----------------------------- *)

\* Clicks on Create the publish page gets.
MaxRuns == 1

\* suiToMist(sui) = floor(sui * 1e9), with amounts of SUI counted in tenths of
\* a MIST so that an amount below one MIST can be entered.
suiToMist(sui) == sui \div 10

\* What the form holds when Create is clicked: the price in tenths of a MIST
\* ("0" and 10 MIST) and the percentage field as parseInt reads it.
FormPrices == {0, 100}
FormPercentages == {5, 11}

\* The affiliate switch with the percentage field: off, on with 5, on with 11.
FormAffiliate ==
    { a \in [enable : BOOLEAN, percentage : FormPercentages] : a.enable \/ a.percentage = 5 }
FormTitles == {<<116>>}
FormDescriptions == {<<>>, <<100>>}

\* Files the seller publishes: a name with a quote and a Latin-1 letter, an
\* empty file without a type, and a name btoa cannot encode.
FormFiles ==
    { File(<<34, 233>>, <<116>>, <<0, 255>>), File(<<97>>, <<>>, <<>>),
      File(<<8364>>, <<116>>, <<7>>) }

\* "No description"
NoDescription == <<78, 111, 32, 100, 101, 115, 99, 114, 105, 112, 116, 105, 111, 110>>

\* BuildListingTx that writes the exported key into the description argument.
BuildListingTx_key_in_description(pg, walrusBlobId) ==
    [fn |-> "create_listing", sender |-> pg.account, price |-> suiToMist(pg.price),
     blob_id |-> Utf8Encode(walrusBlobId), name |-> Utf8Encode(pg.title),
     description |-> Utf8Encode(exportKeyToBase64(pg.encryptionKey)),
     affiliate_percentage |-> 0]

\* BuildListingTx that derives the locator from the ciphertext it holds.
BuildListingTx_local_locator(pg, walrusBlobId) ==
    [fn |-> IF pg.enableAffiliate /\ pg.affiliatePercentage * 100 > 0
            THEN "create_listing_with_affiliate" ELSE "create_listing",
     sender |-> pg.account, price |-> suiToMist(pg.price),
     blob_id |-> Utf8Encode(BlobIdOf(pg.encrypted[1].encryptedBlob)),
     name |-> Utf8Encode(pg.title),
     description |-> Utf8Encode(IF pg.description = <<>> THEN NoDescription ELSE pg.description),
     affiliate_percentage |-> IF pg.enableAffiliate THEN pg.affiliatePercentage * 100 ELSE 0]

\* Step 6 of handleCreateListing: the moveCall for the page's form and the
\* locator the upload returned.
BuildListingTx(pg, walrusBlobId) ==
    [fn |-> IF pg.enableAffiliate /\ pg.affiliatePercentage * 100 > 0
            THEN "create_listing_with_affiliate" ELSE "create_listing",
     sender |-> pg.account, price |-> suiToMist(pg.price),
     blob_id |-> Utf8Encode(walrusBlobId), name |-> Utf8Encode(pg.title),
     description |-> Utf8Encode(IF pg.description = <<>> THEN NoDescription ELSE pg.description),
     affiliate_percentage |-> IF pg.enableAffiliate THEN pg.affiliatePercentage * 100 ELSE 0]

\* A link /claim?id=<id>[&ref=<ref>]#<fragment>; the query goes to the server
\* with the page request, the fragment does not.
Link(id, ref, fragment) == [id |-> id, ref |-> ref, fragment |-> fragment]

\* `${baseUrl}/claim?id=${createdListingId}#${unlockData}`
unlockUrl(createdListingId, unlockData) == Link(createdListingId, NoAddress, unlockData)

\* `${baseUrl}/claim?id=${createdListingId}&ref=${address}#${unlockData}`
affLink(createdListingId, address, unlockData) == Link(createdListingId, address, unlockData)

\* The catch block of handleCreateListing, and the returns that report an error.
PublishFailed(pg, message) ==
    [pg EXCEPT !.error = message, !.isLoading = FALSE, !.step = "idle"]

\* handleCreateListing up to its first await: the guard, the resets, and the
\* validation of price and percentage.
handleCreateListing(account, file, title, description, price, enableAffiliate, affiliatePercentage) ==
    /\ ~sellPage.isLoading
    /\ title # <<>>
    /\ sellPage.runs < MaxRuns
    /\ LET form == [SellPageLoaded EXCEPT !.account = account, !.file = <<file>>,
                        !.title = title, !.description = description, !.price = price,
                        !.enableAffiliate = enableAffiliate,
                        !.affiliatePercentage = affiliatePercentage,
                        !.runs = sellPage.runs + 1]
       IN  IF price <= 0
           THEN sellPage' = PublishFailed(form, "Please enter a valid price")
           ELSE IF enableAffiliate /\ (affiliatePercentage < 1 \/ affiliatePercentage > 10)
           THEN sellPage' = PublishFailed(form, "Affiliate percentage must be between 1% and 10%")
           ELSE sellPage' = [form EXCEPT !.isLoading = TRUE, !.step = "key"]
    /\ UNCHANGED <<listings, balance, events, last, buyPage, walrus, lib>>

\* Step 1: generateEncryptionKey resolves with a key or rejects.
keyGenerated(ok, key) ==
    /\ sellPage.step = "key"
    /\ sellPage' = IF ok
                   THEN [sellPage EXCEPT !.encryptionKey = key, !.step = "encrypt",
                                         !.done = Append(@, "generate key")]
                   ELSE PublishFailed(sellPage, "generateKey failed")
    /\ UNCHANGED <<listings, balance, events, last, buyPage, walrus, lib>>

\* Step 2: encryptFile resolves (with the iv it drew) or rejects.
fileEncrypted(ok, iv) ==
    /\ sellPage.step = "encrypt"
    /\ sellPage' = IF ok
                   THEN [sellPage EXCEPT
                            !.encrypted = <<encryptFile(sellPage.file[1], sellPage.encryptionKey, iv)>>,
                            !.step = "frame", !.done = Append(@, "encrypt")]
                   ELSE PublishFailed(sellPage, "encrypt failed")
    /\ UNCHANGED <<listings, balance, events, last, buyPage, walrus, lib>>

\* Step 3: createEncryptedPayload.
payloadFramed ==
    /\ sellPage.step = "frame"
    /\ sellPage' = [sellPage EXCEPT
                       !.encryptedPayload = createEncryptedPayload(sellPage.encrypted[1].encryptedBlob,
                                                                   sellPage.encrypted[1].iv),
                       !.step = "upload", !.done = Append(@, "frame")]
    /\ UNCHANGED <<listings, balance, events, last, buyPage, walrus, lib>>

\* Steps 4 to 7: the publisher answers the upload; on a blobId the page
\* encodes the unlock data, builds the transaction and hands it to the wallet.
\* MARKET_PACKAGE_ID has a non-empty default, so its check passes.
uploadAnswered(answer) ==
    /\ sellPage.step = "upload"
    /\ walrus' = answer.store
    /\ LET uploaded == uploadToWalrus(sellPage.encryptedPayload, answer.response).result
           unlockData == encodeUnlockData(sellPage.encryptionKey,
                                          sellPage.encrypted[1].originalName,
                                          sellPage.encrypted[1].originalType)
       IN  sellPage' =
               IF Threw(uploaded) THEN PublishFailed(sellPage, uploaded.error)
               ELSE IF Threw(unlockData)
               THEN PublishFailed([sellPage EXCEPT !.walrusBlobId = uploaded.value,
                                                   !.done = Append(@, "upload")],
                                  unlockData.error)
               ELSE [sellPage EXCEPT !.walrusBlobId = uploaded.value,
                                     !.unlockData = unlockData.value,
                                     !.tx = <<BuildListingTx(sellPage, uploaded.value)>>,
                                     !.step = "sign", !.done = Append(@, "upload")]
    /\ UNCHANGED <<listings, balance, events, last, buyPage, lib>>

\* onSuccess: the transaction executed; the page finds the id of the created
\* Listing (in the effects or in the transaction block it fetches) or does not.
listingCreated(found) ==
    /\ sellPage.step = "sign"
    /\ LET tx == sellPage.tx[1]
       IN  IF tx.fn = "create_listing_with_affiliate"
           THEN create_listing_with_affiliate(tx.sender, tx.price, tx.blob_id, tx.name,
                                              tx.description, tx.affiliate_percentage)
           ELSE create_listing(tx.sender, tx.price, tx.blob_id, tx.name, tx.description)
    /\ last'.status = "ok"
    /\ sellPage' =
           IF ~found
           THEN PublishFailed([sellPage EXCEPT !.done = Append(@, "create listing")],
                              "Transaction successful! Check Sui Explorer to get listing ID.")
           ELSE [sellPage EXCEPT
                    !.generatedLink = <<unlockUrl(Len(listings'), sellPage.unlockData)>>,
                    !.affiliateLink = IF sellPage.enableAffiliate
                                      THEN <<affLink(Len(listings'), sellPage.account,
                                                     sellPage.unlockData)>>
                                      ELSE <<>>,
                    !.isLoading = FALSE, !.step = "idle",
                    !.done = @ \o <<"create listing", "assemble link">>]
    /\ UNCHANGED <<buyPage, walrus, lib>>

\* onError: the wallet rejected the transaction or its execution failed.
listingTransactionFailed ==
    /\ sellPage.step = "sign"
    /\ sellPage' = PublishFailed(sellPage, "Transaction failed! See console for details.")
    /\ UNCHANGED <<listings, balance, events, last, buyPage, walrus, lib>>

\* The try block of handleDownload for a page opened on `link`, whose listing
\* carries blobId, given the aggregator's answer.
downloadAndDecrypt(unlockData, blobId, response) ==
    LET decoded == decodeUnlockData(unlockData)
        downloaded == downloadFromWalrus(blobId, response).result
        parsed == parseEncryptedPayload(downloaded.value)
    IN  IF Threw(decoded) THEN decoded
        ELSE IF blobId = <<>> \/ Trim(blobId) = <<>>
        THEN Throw("Listing has no blob ID. Cannot download file.")
        ELSE IF Threw(downloaded) THEN downloaded
        ELSE decryptFile(parsed.encryptedData, decoded.value.key, parsed.iv,
                         decoded.value.fileName, decoded.value.fileType)

\* A buyer redeems a link the page generated: the redeem page reads the listing
\* the link names, extracts its locator and runs handleDownload.
redeemLink(link) ==
    /\ link.id \in 1..Len(listings)
    /\ LET blobId == extractBlobId(listings[link.id])
       IN  \E response \in StoreGet(walrus, blobId) :
               lib' = LibCall("handleDownload", <<link, blobId>>, <<response>>,
                              [requests |-> downloadFromWalrus(blobId, response).requests,
                               result |-> downloadAndDecrypt(link.fragment, blobId, response)])
    /\ UNCHANGED <<listings, balance, events, last, buyPage, sellPage, walrus>>

HandleCreateListing ==
    \E account \in Sellers, file \in FormFiles, title \in FormTitles,
       description \in FormDescriptions, price \in FormPrices, affiliate \in FormAffiliate :
        handleCreateListing(account, file, title, description, price, affiliate.enable,
                            affiliate.percentage)
KeyGenerated == \E ok \in BOOLEAN, key \in Keys : keyGenerated(ok, key)
FileEncrypted == \E ok \in BOOLEAN, iv \in {v \in Ivs : v[1] = 0} : fileEncrypted(ok, iv)
UploadAnswered == \E answer \in StorePut(walrus, sellPage.encryptedPayload) : uploadAnswered(answer)
ListingCreated == \E found \in BOOLEAN : listingCreated(found)
RedeemLink ==
    \E link \in {sellPage.generatedLink[i] : i \in 1..Len(sellPage.generatedLink)}
                \cup {sellPage.affiliateLink[i] : i \in 1..Len(sellPage.affiliateLink)} :
        redeemLink(link)

NextPublish ==
    \/ HandleCreateListing
    \/ KeyGenerated
    \/ FileEncrypted
    \/ payloadFramed
    \/ UploadAnswered
    \/ ListingCreated
    \/ listingTransactionFailed
    \/ RedeemLink

SpecPublish == InitLib /\ [][NextPublish]_vars

\* The links the publish page shows.
GeneratedLinks ==
    {sellPage.generatedLink[i] : i \in 1..Len(sellPage.generatedLink)}
        \cup {sellPage.affiliateLink[i] : i \in 1..Len(sellPage.affiliateLink)}

\* sub occurs in seq as a contiguous run.
Contains(seq, sub) ==
    /\ sub # <<>>
    /\ \E i \in 0..(Len(seq) - Len(sub)) : SubSeq(seq, i + 1, i + Len(sub)) = sub

(* ------------------------------ C21 ------------------------------------ *)

\* The key of the running publish flow in the forms it takes: raw bytes, the
\* base64 text exportKeyToBase64 gives, and the unlock fragment.
Secrets ==
    {sellPage.encryptionKey, exportKeyToBase64(sellPage.encryptionKey), sellPage.unlockData}
        \ {<<>>}

\* C21: in every run of the publish flow the payload handed to the blob store
\* is exactly the iv followed by the ciphertext, and neither it, nor a blob in
\* the store, nor an argument of the listing-creation transaction, nor a field
\* of the listing on the ledger contains the key or the unlock fragment; the
\* links carry the unlock data in their fragment only, and it decodes to the key.
C21_KeyOnlyInLinkFragment ==
    sellPage.encryptionKey # <<>> =>
        /\ sellPage.encryptedPayload # <<>> =>
               sellPage.encryptedPayload =
                   sellPage.encrypted[1].iv
                       \o SubtleEncrypt(sellPage.encryptionKey, sellPage.encrypted[1].iv,
                                        sellPage.file[1].bytes)
        /\ \A secret \in Secrets :
               /\ ~Contains(sellPage.encryptedPayload, secret)
               /\ \A b \in walrus : ~Contains(b.payload, secret) /\ ~Contains(b.blobId, secret)
               /\ \A i \in 1..Len(sellPage.tx) :
                      /\ ~Contains(sellPage.tx[i].blob_id, secret)
                      /\ ~Contains(sellPage.tx[i].name, secret)
                      /\ ~Contains(sellPage.tx[i].description, secret)
               /\ \A id \in 1..Len(listings) :
                      /\ ~Contains(listings[id].blob_id, secret)
                      /\ ~Contains(listings[id].name, secret)
                      /\ ~Contains(listings[id].description, secret)
        /\ \A link \in GeneratedLinks :
               /\ link.fragment = sellPage.unlockData
               /\ link.id \in 1..Len(listings)
               /\ link.ref \in {NoAddress, sellPage.account}
               /\ decodeUnlockData(link.fragment).value.key = sellPage.encryptionKey

\* A run that stored its payload, created its listing and shows both links.
C21_Witness ==
    /\ sellPage.affiliateLink # <<>>
    /\ sellPage.generatedLink # <<>>
    /\ listings # <<>>
    /\ \E b \in walrus : b.payload = sellPage.encryptedPayload
    /\ sellPage.encryptionKey[1] = 255

(* ------------------------------ C22 ------------------------------------ *)

\* The steps of the publish flow in the order the spec gives them.
PublishSteps ==
    <<"generate key", "encrypt", "frame", "upload", "create listing", "assemble link">>

\* C22: the steps a run has completed are an initial part of generate key,
\* encrypt, frame, upload, create listing, assemble link; a transaction is
\* submitted only after the store answered the upload with the locator under
\* which it holds the framed payload, and carries that locator, as does the
\* listing created; a run that failed before submitting has submitted nothing,
\* and a run that failed at any step shows no link.
C22_PublishStepsInOrder ==
    /\ Len(sellPage.done) <= Len(PublishSteps)
    /\ \A i \in 1..Len(sellPage.done) : sellPage.done[i] = PublishSteps[i]
    /\ sellPage.tx # <<>> =>
           /\ Len(sellPage.done) >= 4
           /\ \E b \in walrus : /\ b.payload = sellPage.encryptedPayload
                                /\ b.blobId = sellPage.walrusBlobId
           /\ sellPage.tx[1].blob_id = Utf8Encode(sellPage.walrusBlobId)
    /\ Len(sellPage.done) >= 5 =>
           /\ sellPage.tx # <<>>
           /\ listings # <<>>
           /\ listings[Len(listings)].blob_id = sellPage.tx[1].blob_id
           /\ extractBlobId(listings[Len(listings)]) = sellPage.walrusBlobId
    /\ Len(sellPage.done) < 4 => (sellPage.tx = <<>> /\ sellPage.walrusBlobId = <<>>)
    /\ (sellPage.runs = 1 /\ Len(sellPage.done) < 5) => listings = <<>>
    /\ GeneratedLinks # {} => (sellPage.done = PublishSteps /\ sellPage.error = "none")
    /\ (sellPage.error # "none" /\ sellPage.tx # <<>>) =>
           sellPage.error \in {"Transaction failed! See console for details.",
                               "Transaction successful! Check Sui Explorer to get listing ID."}

\* A run completed all six steps, the listing carrying the locator of an
\* affiliate listing's payload.
C22_Witness ==
    /\ sellPage.done = PublishSteps
    /\ sellPage.tx[1].fn = "create_listing_with_affiliate"
    /\ Utf8Decode(listings[1].blob_id) = BlobIdOf(sellPage.encryptedPayload)
    /\ sellPage.generatedLink # <<>>

(* ------------------------------ C25 ------------------------------------ *)

\* C25: decryptFile applied to what encryptFile returned for a file, under the
\* same key, gives the file's bytes, name and type; and a redeem of a link the
\* publish page generated, whenever the store answers the download with the
\* blob held under the listing's locator, returns the published file: its
\* bytes, name and type.
C25_RedeemReturnsPublishedFile ==
    /\ sellPage.encrypted # <<>> =>
           LET e == sellPage.encrypted[1]
           IN  decryptFile(e.encryptedBlob, sellPage.encryptionKey, e.iv,
                           e.originalName, e.originalType) = Return(sellPage.file[1])
    /\ (lib.fn = "handleDownload" /\ lib.args[1] \in GeneratedLinks
          /\ lib.response[1].kind = "response" /\ lib.response[1].ok) =>
           lib.result = Return(sellPage.file[1])

\* The affiliate link of a published two-byte file with a quoted, accented name
\* and a MIME type has been redeemed.
C25_Witness ==
    /\ lib.fn = "handleDownload"
    /\ lib.args[1].ref # NoAddress
    /\ Returned(lib.result)
    /\ lib.result.value = File(<<34, 233>>, <<116>>, <<0, 255>>)
    /\ sellPage.encryptionKey[1] = 255

(* ------------------------------ C31 ------------------------------------ *)

\* C31: a successful purchase appends exactly one PurchaseEvent whose
\* listing_id, seller and price are the listing's and whose buyer is the sender;
\* a successful purchase_with_referral appends exactly one
\* AffiliatePurchaseEvent with, besides these, the referrer of the call and the
\* affiliate_fee that referrer was sent; every other step (a failed purchase
\* included) leaves the events as they were, so there are as many events as
\* successful purchases.
C31_OneEventPerSuccessfulPurchase ==
    [][LET c == last'
           l == listings[c.id]
       IN  IF IsPurchase(c) /\ Succeeded(c)
           THEN events' = Append(events, PurchaseEvent(c.id, c.sender, l.seller, l.price))
           ELSE IF IsReferral(c) /\ Succeeded(c)
           THEN /\ Len(events') = Len(events) + 1
                /\ SubSeq(events', 1, Len(events)) = events
                /\ LET e == events'[Len(events')]
                   IN  /\ e.type = "AffiliatePurchaseEvent"
                       /\ e.listing_id = c.id
                       /\ e.buyer = c.sender
                       /\ e.seller = l.seller
                       /\ e.price = l.price
                       /\ e.referrer = c.referrer
                       /\ e.affiliate_fee = SentTo(c.transfers, c.referrer)
           ELSE events' = events
      ]_vars

\* A referral purchase that paid its referrer has put its event on record.
C31_Witness ==
    /\ IsReferral(last)
    /\ Succeeded(last)
    /\ Len(events) = 1
    /\ events[1].affiliate_fee > 0
    /\ events[1].referrer = last.referrer

(* ------------------------------ C32 ------------------------------------ *)

\* C32: when deactivate_listing, reactivate_listing or
\* update_affiliate_percentage aborts because the sender is not the seller, the
\* abort code differs from the code of every other failure kind of the module.
C32_UnauthorizedCodeDistinct ==
    (last.op \in SellerOnlyOps /\ last.status = "abort"
       /\ last.sender # listings[last.id].seller) =>
        last.code \notin {E_INSUFFICIENT_PAYMENT, E_LISTING_NOT_ACTIVE,
                          E_INVALID_AFFILIATE_PERCENTAGE, E_CANNOT_SELF_REFER}

(* --------------------------- u64 arithmetic ---------------------------- *)

\* A u64 at its full width: four 16-bit limbs, least significant first.
LimbBase == 2^16
U64(n) == <<n % LimbBase, (n \div LimbBase) % LimbBase, 0, 0>>
MaxU64 == <<LimbBase - 1, LimbBase - 1, LimbBase - 1, LimbBase - 1>>

RECURSIVE MulFrom(_, _, _, _, _)
\* Limbs i.. of a times m plus carry, after the limbs acc already produced.
MulFrom(a, m, i, carry, acc) ==
    IF i > Len(a) THEN [overflow |-> carry > 0, value |-> acc]
    ELSE MulFrom(a, m, i + 1, (a[i] * m + carry) \div LimbBase,
                 Append(acc, (a[i] * m + carry) % LimbBase))

\* a * m in u64 (m below 2^15): the low 64 bits, and whether the product left
\* the u64 range, on which the Move VM aborts.
MulU64(a, m) == MulFrom(a, m, 1, 0, <<>>)

RECURSIVE DivFrom(_, _, _, _, _)
\* Long division of the limbs i..1 of a by d, with the remainder so far.
DivFrom(a, d, i, rem, acc) ==
    IF i = 0 THEN acc
    ELSE DivFrom(a, d, i - 1, (rem * LimbBase + a[i]) % d,
                 <<(rem * LimbBase + a[i]) \div d>> \o acc)

\* a / d in u64 (d below 2^15).
DivU64(a, d) == DivFrom(a, d, Len(a), 0, <<>>)

RECURSIVE GeqFrom(_, _, _)
GeqFrom(a, b, i) ==
    IF i = 0 THEN TRUE
    ELSE IF a[i] # b[i] THEN a[i] > b[i]
    ELSE GeqFrom(a, b, i - 1)

\* a >= b
GeqU64(a, b) == GeqFrom(a, b, Len(a))

RECURSIVE SubFrom(_, _, _, _, _)
SubFrom(a, b, i, borrow, acc) ==
    IF i > Len(a) THEN acc
    ELSE LET d == a[i] - b[i] - borrow
         IN  SubFrom(a, b, i + 1, IF d < 0 THEN 1 ELSE 0,
                     Append(acc, IF d < 0 THEN d + LimbBase ELSE d))

\* a - b for a >= b.
SubU64(a, b) == SubFrom(a, b, 1, 0, <<>>)

\* purchase_with_referral on a listing whose price, and a coin whose value, are
\* u64 at full width.
purchase_with_referral_u64(listing, payment_value, referrer, buyer) ==
    LET product == MulU64(listing.price, listing.affiliate_percentage)
        affiliate_fee == IF listing.affiliate_percentage > 0
                         THEN DivU64(product.value, BASIS_POINTS)
                         ELSE U64(0)
        seller_amount == SubU64(listing.price, affiliate_fee)
        to_referrer == IF affiliate_fee # U64(0)
                       THEN <<Transfer(referrer, affiliate_fee)>>
                       ELSE <<>>
    IN  IF ~listing.is_active THEN Abort(E_LISTING_NOT_ACTIVE)
        ELSE IF ~GeqU64(payment_value, listing.price) THEN Abort(E_INSUFFICIENT_PAYMENT)
        ELSE IF ~(referrer # buyer) THEN Abort(E_CANNOT_SELF_REFER)
        ELSE IF ~(referrer # listing.seller) THEN Abort(E_CANNOT_SELF_REFER)
        ELSE IF listing.affiliate_percentage > 0 /\ product.overflow THEN ArithmeticError
        ELSE Ok(to_referrer \o <<Transfer(listing.seller, SubU64(payment_value, affiliate_fee))>>,
                <<AffiliatePurchaseEvent(listing.id, buyer, listing.seller, referrer,
                                         listing.price, affiliate_fee, seller_amount)>>)

\* Prices a listing can be created with: small ones, 2^32, the largest price
\* whose product with 1000 fits u64 (18446744073709551) and the next one, and
\* the largest u64.
U64Prices ==
    { U64(0), U64(10), U64(999), <<0, 0, 1, 0>>, <<42991, 19398, 35127, 65>>,
      <<42992, 19398, 35127, 65>>, MaxU64 }

\* Listings create_listing and create_listing_with_affiliate accept, with the
\* percentages update_affiliate_percentage accepts.
U64Listings ==
    { Listing(1, "alice", price, <<7>>, <<110>>, <<100>>, is_active, pct) :
        price \in U64Prices, is_active \in BOOLEAN, pct \in {0, 1, 333, 1000} }

\* A purchase_with_referral transaction on one of these listings, paid with a
\* coin of exactly the price or of the largest value.
CallPurchaseWithReferralU64 ==
    /\ \E listing \in U64Listings, buyer \in Addresses, referrer \in Addresses :
           \E payment_value \in {listing.price, MaxU64} :
               lib' = LibCall("purchase_with_referral",
                              <<listing, payment_value, referrer, buyer>>, <<>>,
                              [requests |-> <<>>,
                               result |-> purchase_with_referral_u64(listing, payment_value,
                                                                     referrer, buyer)])
    /\ UNCHANGED <<listings, balance, events, last, buyPage, sellPage, walrus>>

RECURSIVE BitLength(_)
\* Number of bits of n: 0 for 0, 16 for 65535.
BitLength(n) == IF n = 0 THEN 0 ELSE 1 + BitLength(n \div 2)

RECURSIVE AddFrom(_, _, _, _, _)
AddFrom(a, b, i, carry, acc) ==
    IF i > Len(a) THEN [overflow |-> carry > 0, value |-> acc]
    ELSE AddFrom(a, b, i + 1, (a[i] + b[i] + carry) \div LimbBase,
                 Append(acc, (a[i] + b[i] + carry) % LimbBase))

\* a + b, and whether the sum left the u64 range.
AddU64(a, b) == AddFrom(a, b, 1, 0, <<>>)

\* Number(listing.price) on the decimal string of a u64: the nearest IEEE-754
\* double, which keeps 53 significant bits and rounds a tie to the even
\* mantissa. Values below 2^53 (top limb below 32) are kept; above, the low
\* BitLength - 53 bits are rounded away. overflow: the double is 2^64.
Number(price) ==
    IF price[4] < 32 THEN [overflow |-> FALSE, value |-> price]
    ELSE LET unit == 2^(BitLength(price[4]) - 5)
             rest == price[1] % unit
             odd == (price[1] \div unit) % 2 = 1
             truncated == <<price[1] - rest, price[2], price[3], price[4]>>
         IN  IF (2 * rest > unit) \/ (2 * rest = unit /\ odd)
             THEN AddU64(truncated, <<unit, 0, 0, 0>>)
             ELSE [overflow |-> FALSE, value |-> truncated]

\* purchase on a listing whose price, and a coin whose value, are u64 at full
\* width.
purchase_u64(listing, payment_value, buyer) ==
    IF ~listing.is_active THEN Abort(E_LISTING_NOT_ACTIVE)
    ELSE IF ~GeqU64(payment_value, listing.price) THEN Abort(E_INSUFFICIENT_PAYMENT)
    ELSE Ok(<<Transfer(listing.seller, payment_value)>>,
            <<PurchaseEvent(listing.id, buyer, listing.seller, listing.price)>>)

\* The transaction block handlePurchase builds for a price at full width:
\* priceAmount = Number(listing.price) is the amount of tx.splitCoins.
BuildPurchaseTxU64(referrer, account, info) ==
    IF hasValidReferrer(referrer, account, info)
    THEN [fn |-> "purchase_with_referral", id |-> info.id, payment |-> Number(info.price).value,
          referrer |-> referrer, sender |-> account]
    ELSE [fn |-> "purchase", id |-> info.id, payment |-> Number(info.price).value,
          referrer |-> NoAddress, sender |-> account]

\* Prices the page can read: those of U64Prices whose double is a u64, and
\* 2^53 + 1 and 2^53 + 3, the first prices between two doubles.
PagePrices ==
    (U64Prices \ {MaxU64}) \cup {<<1, 0, 0, 32>>, <<3, 0, 0, 32>>}

PageListings ==
    { Listing(1, "alice", price, <<7>>, <<110>>, <<100>>, is_active, pct) :
        price \in PagePrices, is_active \in BOOLEAN, pct \in {0, 333} }

\* handlePurchase on a listing as fetchListing read it, and the execution of
\* the transaction it built on that listing.
CallHandlePurchaseU64 ==
    /\ \E listing \in PageListings, account \in Wallets, referrer \in LinkReferrers :
           LET tx == BuildPurchaseTxU64(referrer, account, ListingInfo(listing))
           IN  /\ ~Number(listing.price).overflow
               /\ lib' = LibCall("handlePurchase", <<listing, tx>>, <<>>,
                                 [requests |-> <<>>,
                                  result |-> IF tx.fn = "purchase_with_referral"
                                             THEN purchase_with_referral_u64(listing, tx.payment,
                                                                             tx.referrer, tx.sender)
                                             ELSE purchase_u64(listing, tx.payment, tx.sender)])
    /\ UNCHANGED <<listings, balance, events, last, buyPage, sellPage, walrus>>

NextU64 ==
    \/ CallPurchaseWithReferralU64
    \/ CallHandlePurchaseU64

SpecU64 == InitLib /\ [][NextU64]_vars

(* ------------------------------ C33 ------------------------------------ *)

\* C33: purchase_with_referral on an active listing with affiliate_percentage
\* <= 1000 and any u64 price, paid with payment.value >= price and a referrer
\* that is neither the buyer nor the seller, succeeds.
C33_ReferralPurchaseNeverOverflows ==
    lib.fn = "purchase_with_referral" =>
        LET listing == lib.args[1]
        IN  (listing.is_active /\ listing.affiliate_percentage <= MAX_AFFILIATE_PERCENTAGE
               /\ GeqU64(lib.args[2], listing.price)
               /\ lib.args[3] # lib.args[4] /\ lib.args[3] # listing.seller) =>
                lib.result.status = "ok"

(* ------------------------------ C34 ------------------------------------ *)

\* C34: the step on which the page's purchase transaction succeeds moves the
\* page to "success", not to "downloading"; a step enters "downloading" only
\* from "success", with the Download File button shown, and touches neither
\* the ledger nor the pending transaction (it is the click, not the purchase);
\* and whenever the page is "downloading" its txDigest is set.
C34_DownloadOnlyByActionAfterPurchase ==
    [][/\ (buyPage.pending /\ ~buyPage'.pending /\ buyPage'.txDigest # buyPage.txDigest) =>
              buyPage'.purchaseState = "success"
       /\ (buyPage'.purchaseState = "downloading" /\ buyPage.purchaseState # "downloading") =>
              /\ buyPage.purchaseState = "success"
              /\ DownloadButtonShown(buyPage)
              /\ ~buyPage.pending
              /\ UNCHANGED <<listings, balance, events, last>>
       /\ buyPage'.purchaseState \in {"idle", "purchasing", "success", "downloading", "error"}
       /\ buyPage'.purchaseState = "downloading" => Paid(buyPage')
      ]_vars

\* The buyer has paid and clicked Download File.
C34_Witness ==
    /\ buyPage.purchaseState = "downloading"
    /\ Paid(buyPage)
    /\ events # <<>>

(* ------------------------------ C35 ------------------------------------ *)

\* C35: when the opened link is the affiliate link of the publish flow, whose
\* ref is the address of the seller of the listing it names, every transaction
\* the page builds targets purchase, no purchase_with_referral reaches the
\* ledger, no AffiliatePurchaseEvent is emitted, the seller receives the whole
\* payment of a successful purchase, and no transaction aborts with
\* E_CANNOT_SELF_REFER.
C35_SellerReferralLinkBuysPlainly ==
    (buyPage.listingId \in ListingIds /\ buyPage.referrer = listings[buyPage.listingId].seller) =>
        /\ buyPage.tx # <<>> => buyPage.tx[1].fn = "purchase"
        /\ last.op # "purchase_with_referral"
        /\ \A i \in 1..Len(events) : "affiliate_fee" \notin DOMAIN events[i]
        /\ (IsPurchase(last) /\ Succeeded(last)) =>
               SentTo(last.transfers, listings[last.id].seller) = last.payment
        /\ ~(last.status = "abort" /\ last.code = E_CANNOT_SELF_REFER)

\* A buyer other than the seller bought through the seller's own affiliate
\* link while the listing paid a commission.
C35_Witness ==
    /\ buyPage.listingId \in ListingIds
    /\ buyPage.referrer = listings[buyPage.listingId].seller
    /\ buyPage.currentAccount # buyPage.referrer
    /\ buyPage.purchaseState = "success"
    /\ buyPage.listing[1].affiliatePercentage.num > 0
    /\ IsPurchase(last) /\ Succeeded(last)
    /\ listings[last.id].affiliate_percentage > 0

(* ------------------------------ C36 ------------------------------------ *)

\* C36: whenever the page has handed a purchase transaction to the wallet, the
\* opened link carries unlock data and the listing the page read has a
\* non-empty locator.
C36_PurchaseOnlyWhenDownloadPossible ==
    buyPage.pending =>
        /\ buyPage.unlockData # NoUnlockData
        /\ Trim(buyPage.listing[1].blobId) # <<>>

(* ------------------------------ C37 ------------------------------------ *)

\* C37: the payment of every purchase transaction the page builds equals the
\* price of the listing it read, so that the transaction does not abort with
\* E_INSUFFICIENT_PAYMENT and, when it succeeds, moves exactly the price.
C37_ClientPaysExactlyThePrice ==
    lib.fn = "handlePurchase" =>
        LET listing == lib.args[1]
            tx == lib.args[2]
        IN  /\ tx.payment = listing.price
            /\ ~(lib.result.status = "abort" /\ lib.result.code = E_INSUFFICIENT_PAYMENT)

(* ------------------------------ C38 ------------------------------------ *)

\* C38: once the listing-creation transaction of the publish flow has
\* succeeded, the page holds a link whose id is the created listing and whose
\* fragment is the unlock data of the run, which decodes to its key.
C38_CreatedListingHasLink ==
    listings # <<>> =>
        \E link \in GeneratedLinks :
            /\ link.id = Len(listings)
            /\ link.fragment = sellPage.unlockData
            /\ decodeUnlockData(link.fragment).value.key = sellPage.encryptionKey

(* ------------------- the listing fetch, read by read -------------------- *)

\* `retryCount < 3` of the not-found branch and `retryCount < 2` of the catch.
NotFoundRetryLimit == 3
ThrownRetryLimit == 2

\* The position of the fetch effect: pc is "idle" before the effect runs,
\* "reading" while getObject is awaited, "waiting" during the 2 s pause before
\* a retry (cause tells which branch paused), "done" after the last call
\* returned, "skipped" when the link has no id. reads, notFoundRetries and
\* thrownRetries count the getObject calls and the retries of each kind.
FetchProcess(pc, retryCount, cause, reads, notFoundRetries, thrownRetries) ==
    [fn |-> "fetchListing", pc |-> pc, retryCount |-> retryCount, cause |-> cause,
     reads |-> reads, notFoundRetries |-> notFoundRetries, thrownRetries |-> thrownRetries]

\* Answers of SUI_CLIENT.getObject for the link's id: a throw, no data, an
\* object that is not a moveObject, or the Listing on the ledger.
ObjectAnswers == {RpcThrew, RpcNoData, RpcPackage} \cup {RpcObject(listings[id]) : id \in ListingIds}

InitFetch ==
    /\ \E l \in PublishedListings : listings = <<l>>
    /\ balance = [a \in Addresses |-> InitialFunds]
    /\ events = <<>>
    /\ last = Call("none", NoAddress, 0, 0, NoAddress, 0, Ok(<<>>, <<>>), balance, balance)
    /\ \E listingId \in LinkListingIds, unlockData \in LinkUnlockData :
           buyPage = [BuyPageOpened(listingId, NoAddress, unlockData)
                          EXCEPT !.isLoadingListing = TRUE]
    /\ sellPage = SellPageLoaded
    /\ walrus = {}
    /\ lib = FetchProcess("idle", 0, "none", 0, 0, 0)

\* The effect on [listingId]: without an id it clears isLoadingListing and
\* returns; with one it calls fetchListing(), which sets isLoadingListing,
\* clears listingError and awaits getObject.
fetchEffect ==
    /\ lib.pc = "idle"
    /\ IF buyPage.listingId = NoListingId
       THEN /\ buyPage' = [buyPage EXCEPT !.isLoadingListing = FALSE]
            /\ lib' = [lib EXCEPT !.pc = "skipped"]
       ELSE /\ buyPage' = [buyPage EXCEPT !.isLoadingListing = TRUE, !.listingError = FALSE]
            /\ lib' = [lib EXCEPT !.pc = "reading"]
    /\ UNCHANGED <<listings, balance, events, last, sellPage, walrus>>

\* objectAnswered with the catch retrying whatever retryCount is.
objectAnswered_retrying_every_throw(object) ==
    /\ lib.pc = "reading"
    /\ IF object.kind = "nodata" /\ lib.retryCount < 3
       THEN /\ lib' = [lib EXCEPT !.reads = @ + 1, !.pc = "waiting", !.cause = "nodata"]
            /\ UNCHANGED buyPage
       ELSE IF object.kind = "threw"
       THEN /\ lib' = [lib EXCEPT !.reads = @ + 1, !.pc = "waiting", !.cause = "threw"]
            /\ UNCHANGED buyPage
       ELSE /\ lib' = [lib EXCEPT !.reads = @ + 1, !.pc = "done"]
            /\ buyPage' =
                   IF object.kind = "moveObject"
                   THEN [buyPage EXCEPT !.listing = <<ListingInfo(object.fields[1])>>,
                                        !.isLoadingListing = FALSE]
                   ELSE [buyPage EXCEPT !.listingError = TRUE, !.isLoadingListing = FALSE]
    /\ UNCHANGED <<listings, balance, events, last, sellPage, walrus>>

\* getObject settles in the call fetchListing(retryCount): no data pauses for
\* a retry while retryCount < 3 and else sets listingError; a throw pauses
\* while retryCount < 2 and else sets listingError; an object that is no
\* moveObject sets listingError; a Listing is stored by setListing. Every
\* branch that does not pause ends with isLoadingListing false.
objectAnswered(object) ==
    /\ lib.pc = "reading"
    /\ IF object.kind = "nodata" /\ lib.retryCount < NotFoundRetryLimit
       THEN /\ lib' = [lib EXCEPT !.reads = @ + 1, !.pc = "waiting", !.cause = "nodata"]
            /\ UNCHANGED buyPage
       ELSE IF object.kind = "threw" /\ lib.retryCount < ThrownRetryLimit
       THEN /\ lib' = [lib EXCEPT !.reads = @ + 1, !.pc = "waiting", !.cause = "threw"]
            /\ UNCHANGED buyPage
       ELSE /\ lib' = [lib EXCEPT !.reads = @ + 1, !.pc = "done"]
            /\ buyPage' =
                   IF object.kind = "moveObject"
                   THEN [buyPage EXCEPT !.listing = <<ListingInfo(object.fields[1])>>,
                                        !.isLoadingListing = FALSE]
                   ELSE [buyPage EXCEPT !.listingError = TRUE, !.isLoadingListing = FALSE]
    /\ UNCHANGED <<listings, balance, events, last, sellPage, walrus>>

\* The 2 s pause ends: `return fetchListing(retryCount + 1)` runs the new call
\* up to its await (isLoadingListing set, listingError cleared), and the
\* finally of the returning call then clears isLoadingListing.
retryTimerFired ==
    /\ lib.pc = "waiting"
    /\ lib' = [lib EXCEPT !.pc = "reading", !.retryCount = @ + 1, !.cause = "none",
                          !.notFoundRetries = IF lib.cause = "nodata" THEN @ + 1 ELSE @,
                          !.thrownRetries = IF lib.cause = "threw" THEN @ + 1 ELSE @]
    /\ buyPage' = [buyPage EXCEPT !.isLoadingListing = FALSE, !.listingError = FALSE]
    /\ UNCHANGED <<listings, balance, events, last, sellPage, walrus>>

ObjectAnswered == \E object \in ObjectAnswers : objectAnswered(object)

NextFetch ==
    \/ fetchEffect
    \/ ObjectAnswered
    \/ retryTimerFired

\* The promise of getObject settles and the timer of the pause fires: a step
\* of the fetch that can be taken is taken.
SpecFetch == InitFetch /\ [][NextFetch]_vars /\ WF_vars(NextFetch)

(* ------------------------------ C39 ------------------------------------ *)

\* C39: whatever getObject answers, the fetch comes to its end; it never makes
\* more than 4 reads, retries a not-found answer at most 3 times and a thrown
\* error at most 2 times; and once it has ended isLoadingListing is false and
\* a listing or listingError is set.
C39_FetchTerminatesBounded ==
    /\ <>(lib.pc \in {"done", "skipped"})
    /\ [](/\ lib.reads <= NotFoundRetryLimit + 1
          /\ lib.notFoundRetries <= NotFoundRetryLimit
          /\ lib.thrownRetries <= ThrownRetryLimit
          /\ lib.retryCount = lib.notFoundRetries + lib.thrownRetries)
    /\ [](lib.pc = "done" =>
              /\ ~buyPage.isLoadingListing
              /\ buyPage.listing # <<>> \/ buyPage.listingError)

\* The listing was read on the fourth call, after three not-found answers.
C39_Witness ==
    /\ lib.pc = "done"
    /\ lib.reads = 4
    /\ lib.notFoundRetries = 3
    /\ buyPage.listing # <<>>
    /\ ~buyPage.isLoadingListing

====
